---- MODULE Spec2Model ----
(***************************************************************************)
(* GSET question bank generator: the entry points of main.py, the crew of  *)
(* crew.py and the tools of tools/*.py as a state machine.                 *)
(*                                                                         *)
(* Text is a sequence of tokens (a token stands for a fixed run of         *)
(* characters), so that prefix tests, splitting, trimming and formatting   *)
(* are computed the way the Python code computes them.                     *)
(***************************************************************************)
EXTENDS Integers, Sequences, FiniteSets, TLC

VARIABLES
    mode,        \* entry point that is running: "run", "run_single", "batch"
    pc,          \* position of the entry point
    configExists,\* run_batch: os.path.exists(config_file)
    config,      \* run_batch: the loaded configuration (a dict)
    idx,         \* run_batch: index of the chapter of the current iteration
    results,     \* run_batch: the list of result entries
    inputs,      \* the inputs dict handed to kickoff
    jobState,    \* state of the current job's pipeline
    failure,     \* Failed(stage, cause) of the current job
    stageLog,    \* tasks of the current job in the order they were started
    jobLog,      \* kickoffs started and ended, in order
    failedTools, \* tasks of the current job in which a tool reported a failure
    calls,       \* tool calls made in the current job
    tool,        \* the last tool call of the current stage and what it returned
    fs,          \* the file system: path -> content
    printed,     \* messages printed by print_error / print_success
    raised,      \* exception that left the entry point
    returned,    \* what the entry point returned
    akSuffix,    \* answer key parser: suffix of the file
    akExists,    \* answer key parser: path.exists()
    akContent,   \* answer key parser: the characters of the file
    akData,      \* answer key parser: the JSON document of a file whose
                 \* characters are not spelled out (kind "text" otherwise)
    akLines,     \* answer key parser: content.strip().split('\n')
    akPos,       \* answer key parser: index of the next line
    answers,     \* answer key parser: the answers dict, in insertion order
    akLast,      \* answer key parser: the line just processed
    akOut,       \* answer key parser: the returned value
    akPc,        \* answer key parser: position
    mdText,      \* Markdown converter: markdown_content
    mdOut,       \* Markdown converter: the returned LaTeX text
    mdCur,       \* the text under the conversions applied in another order
    mdApplied,   \* the conversions applied to mdCur so far
    mdPc,        \* Markdown converter: position
    typed,       \* run_interactive: what the user types at each prompt
    argv         \* train, test, replay: sys.argv after the program's name

pipeVars == <<mode, pc, configExists, config, idx, results, inputs, jobState,
              failure, stageLog, jobLog, failedTools, calls, tool, fs,
              printed, raised, returned>>
akVars == <<akSuffix, akExists, akContent, akData, akLines, akPos, answers,
            akLast, akOut, akPc>>
mdVars == <<mdText, mdOut, mdCur, mdApplied, mdPc>>
inVars == <<typed, argv>>
vars == <<pipeVars, akVars, mdVars, inVars>>

----------------------------------------------------------------------------
(* Bounds of the model *)

MaxChapters == 3
MaxToolCalls == 1
MaxWrites == 2

----------------------------------------------------------------------------
(* Python values and text *)

Str(s) == [type |-> "str", val |-> s]
NoneValue == [type |-> "NoneType", val |-> << >>]
CrewOutput == [type |-> "CrewOutput", val |-> <<"crew output">>]

Exc(t, m) == [type |-> t, msg |-> m]
NoExc == Exc("none", << >>)

StartsWith(s, p) == Len(p) <= Len(s) /\ SubSeq(s, 1, Len(p)) = p

\* s contains p as a contiguous run
Contains(s, p) ==
    \E i \in 0..(Len(s) - Len(p)) : SubSeq(s, i + 1, i + Len(p)) = p

\* index of the first occurrence of token c in s, 0 when there is none
RECURSIVE IndexFrom(_, _, _)
IndexFrom(s, c, i) ==
    IF i > Len(s) THEN 0
    ELSE IF s[i] = c THEN i
    ELSE IndexFrom(s, c, i + 1)
IndexOf(s, c) == IndexFrom(s, c, 1)

\* str.split(sep): the pieces between the occurrences of token sep
RECURSIVE Split(_, _)
Split(s, sep) ==
    LET i == IndexOf(s, sep)
    IN  IF i = 0 THEN <<s>>
        ELSE <<SubSeq(s, 1, i - 1)>> \o Split(SubSeq(s, i + 1, Len(s)), sep)

\* str.split(sep, 1): at most one split, at the first occurrence
Split1(s, sep) ==
    LET i == IndexOf(s, sep)
    IN  IF i = 0 THEN <<s>>
        ELSE <<SubSeq(s, 1, i - 1), SubSeq(s, i + 1, Len(s))>>

\* sep.join(parts)
RECURSIVE Join(_, _)
Join(parts, sep) ==
    IF parts = << >> THEN << >>
    ELSE IF Len(parts) = 1 THEN parts[1]
    ELSE parts[1] \o sep \o Join(Tail(parts), sep)

----------------------------------------------------------------------------
(* Paths: os.path and pathlib on token sequences; "/" is a token *)

Slash == "/"
ExtTokens == {".png", ".jpg", ".md", ".json", ".txt", ".tex", ".pdf"}

RECURSIVE DropDots(_)
DropDots(parts) ==
    IF parts = << >> THEN << >>
    ELSE IF Head(parts) = << >> \/ Head(parts) = <<".">> THEN DropDots(Tail(parts))
    ELSE <<Head(parts)>> \o DropDots(Tail(parts))

\* str(pathlib.Path(p)) of a relative path: "." and empty components dropped
NormPath(p) == Join(DropDots(Split(p, Slash)), <<Slash>>)

\* os.path.basename(p): what follows the last "/"
Basename(p) == LET parts == Split(p, Slash) IN parts[Len(parts)]

\* os.path.splitext(name)[0]: the name without its extension
SplitextRoot(name) ==
    IF Len(name) >= 2 /\ name[Len(name)] \in ExtTokens
    THEN SubSeq(name, 1, Len(name) - 1)
    ELSE name

\* Path(p).suffix
Suffix(p) ==
    LET name == Basename(p)
    IN  IF Len(name) >= 2 /\ name[Len(name)] \in ExtTokens
        THEN name[Len(name)] ELSE ""

\* Path(p).exists()
Exists(files, p) == NormPath(p) \in DOMAIN files

\* what the file system holds at the path of a directory
Directory == <<"<directory>">>

IsFile(files, p) == NormPath(p) \in DOMAIN files /\ files[NormPath(p)] # Directory

\* the path and the directories above it
Ancestors(p) ==
    LET parts == DropDots(Split(p, Slash))
    IN  {Join(SubSeq(parts, 1, k), <<Slash>>) : k \in 1..Len(parts)}

\* Path(p).parent
Parent(p) ==
    LET parts == DropDots(Split(p, Slash))
    IN  Join(SubSeq(parts, 1, Len(parts) - 1), <<Slash>>)

\* the files with the directories of dirs added
AddDirs(files, dirs) ==
    [q \in DOMAIN files \cup dirs |->
        IF q \in DOMAIN files THEN files[q] ELSE Directory]
MakeDirs(files, d) == AddDirs(files, Ancestors(d))

\* str(e) of an OSError raised for a path
FileExistsText(p) == <<"[Errno 17] File exists: '">> \o p \o <<"'">>
PermissionDeniedText(p) == <<"[Errno 13] Permission denied: '">> \o p \o <<"'">>
NotADirectoryText(p) == <<"[Errno 20] Not a directory: '">> \o p \o <<"'">>
IsADirectoryText(p) == <<"[Errno 21] Is a directory: '">> \o p \o <<"'">>
NoSuchFileText(p) == <<"[Errno 2] No such file or directory: '">> \o p \o <<"'">>

\* The directories os.makedirs(d, exist_ok=True) (pathlib = FALSE) and
\* Path(d).mkdir(parents=True, exist_ok=True) (pathlib = TRUE) look at, from
\* the top down: [path, last: it is d, blame: the path NotADirectoryError
\* names when path is a regular file], which os.makedirs raises for the
\* path just below the file and Path.mkdir for d itself
StepsOf(d, pathlib) ==
    LET parts == DropDots(Split(d, Slash))
        n == Len(parts)
    IN  [k \in 1..n |->
            [path |-> Join(SubSeq(parts, 1, k), <<Slash>>),
             last |-> k = n,
             blame |-> Join(SubSeq(parts, 1,
                                   IF pathlib \/ k = n THEN n ELSE k + 1),
                            <<Slash>>)]]

\* The missing directories are created from the top down; deny is the
\* creation the operating system refuses (the first, the second, ...; 0:
\* none), made the creations done so far. A regular file at the path
\* raises FileExistsError, one above it NotADirectoryError.
\* [ok, type, err, made, done: the steps passed]
RECURSIVE Walk(_, _, _, _, _)
Walk(files, steps, k, deny, made) ==
    IF k > Len(steps)
    THEN [ok |-> TRUE, type |-> "", err |-> << >>, made |-> made,
          done |-> k - 1]
    ELSE IF steps[k].path \in DOMAIN files /\ files[steps[k].path] # Directory
    THEN IF steps[k].last
         THEN [ok |-> FALSE, type |-> "FileExistsError",
               err |-> FileExistsText(steps[k].path), made |-> made,
               done |-> k - 1]
         ELSE [ok |-> FALSE, type |-> "NotADirectoryError",
               err |-> NotADirectoryText(steps[k].blame), made |-> made,
               done |-> k - 1]
    ELSE IF \/ steps[k].path \in DOMAIN files
            \/ \E j \in 1..(k - 1) : steps[j].path = steps[k].path
    THEN Walk(files, steps, k + 1, deny, made)
    ELSE IF deny = made + 1
    THEN [ok |-> FALSE, type |-> "PermissionError",
          err |-> PermissionDeniedText(steps[k].path), made |-> made,
          done |-> k - 1]
    ELSE Walk(files, steps, k + 1, deny, made + 1)

\* [ok, files: the files with the directories created, type, err, made]
Walked(files, steps, w) ==
    [ok |-> w.ok, files |-> AddDirs(files, {steps[j].path : j \in 1..w.done}),
     type |-> w.type, err |-> w.err, made |-> w.made]

\* os.makedirs('') raises FileNotFoundError
Mkdirs(files, d, deny, pathlib) ==
    IF d = << >> /\ ~pathlib
    THEN [ok |-> FALSE, files |-> files, type |-> "FileNotFoundError",
          err |-> NoSuchFileText(<< >>), made |-> 0]
    ELSE Walked(files, StepsOf(d, pathlib),
                Walk(files, StepsOf(d, pathlib), 1, deny, 0))
OsMakedirs(files, d, deny) == Mkdirs(files, d, deny, FALSE)
PathMkdir(files, d, deny) == Mkdirs(files, d, deny, TRUE)

\* a set of files together with the directories that hold them
WithParents(files) ==
    LET dirs == UNION {Ancestors(Parent(q)) : q \in DOMAIN files}
    IN  [q \in DOMAIN files \cup dirs |->
            IF q \in DOMAIN files THEN files[q] ELSE Directory]

\* open(path, 'w').write(content)
WriteFile(files, p, content) ==
    [q \in DOMAIN files \cup {NormPath(p)} |->
        IF q = NormPath(p) THEN content ELSE files[q]]

----------------------------------------------------------------------------
(* str and int *)

Whitespace == {" ", "\t", "\n", "\r"}

\* str.strip()
RECURSIVE LStrip(_)
LStrip(s) ==
    IF s # << >> /\ Head(s) \in Whitespace THEN LStrip(Tail(s)) ELSE s
RECURSIVE RStrip(_)
RStrip(s) ==
    IF s # << >> /\ s[Len(s)] \in Whitespace
    THEN RStrip(SubSeq(s, 1, Len(s) - 1)) ELSE s
Strip(s) == RStrip(LStrip(s))

Digits == {"0", "1", "2", "3", "4", "5", "6", "7", "8", "9"}

\* int(s) accepts s: an optional sign, then digits with single underscores
\* between them
Unsigned(s) == IF s # << >> /\ Head(s) \in {"+", "-"} THEN Tail(s) ELSE s
IsIntLiteral(s) ==
    LET b == Unsigned(s)
    IN  /\ b # << >>
        /\ b[1] \in Digits
        /\ b[Len(b)] \in Digits
        /\ \A i \in 1..Len(b) : b[i] \in Digits \cup {"_"}
        /\ \A i \in 1..(Len(b) - 1) : ~(b[i] = "_" /\ b[i + 1] = "_")

DigitValue(c) == CHOOSE n \in 0..9 : ToString(n) = c
RECURSIVE Magnitude(_, _)
Magnitude(b, acc) ==
    IF b = << >> THEN acc
    ELSE IF Head(b) = "_" THEN Magnitude(Tail(b), acc)
    ELSE Magnitude(Tail(b), 10 * acc + DigitValue(Head(b)))

\* int(s) of an accepted s
IntOf(s) ==
    IF Head(s) = "-" THEN 0 - Magnitude(Unsigned(s), 0)
    ELSE Magnitude(Unsigned(s), 0)

\* the ValueError of int(s)
IntValueError(s) ==
    Exc("ValueError",
        <<"invalid literal for int() with base 10: ", "'">> \o s \o <<"'">>)

----------------------------------------------------------------------------
(* Dicts *)

EmptyDict == [k \in {} |-> 0]

\* {**a, **b}
Merge(a, b) ==
    [k \in DOMAIN a \cup DOMAIN b |-> IF k \in DOMAIN b THEN b[k] ELSE a[k]]

\* d.get(k, default)
Get(d, k, default) == IF k \in DOMAIN d THEN d[k] ELSE default

\* d.setdefault(k, v)
SetDefault(d, k, v) == IF k \in DOMAIN d THEN d ELSE Merge(d, k :> v)

\* [x for x in s if Keep(x)]
RECURSIVE SelectNotIn(_, _)
SelectNotIn(s, d) ==
    IF s = << >> THEN << >>
    ELSE IF Head(s) \notin DOMAIN d
         THEN <<Head(s)>> \o SelectNotIn(Tail(s), d)
         ELSE SelectNotIn(Tail(s), d)

\* str(list of str): "['a', 'b']"
RECURSIVE ReprItems(_)
ReprItems(s) ==
    IF s = << >> THEN << >>
    ELSE IF Len(s) = 1 THEN <<"'", s[1], "'">>
    ELSE <<"'", s[1], "'", ", ">> \o ReprItems(Tail(s))
ReprList(s) == <<"[">> \o ReprItems(s) \o <<"]">>

----------------------------------------------------------------------------
(* OCRTool._run (tools/ocr_tool.py) *)

OCRTag == "[OCR Tool]"
ImportErrorText == <<"No module named 'google'">>
ClientErrorText == <<"Missing key inputs argument!">>
ReadErrorText(p) == PermissionDeniedText(NormPath(p))
ServiceErrorText == <<"503 UNAVAILABLE">>
ExtractedText == <<"1. What is ...? (A) (B) (C) (D)">>

\* What the collaborators of one call do: the import of google.genai, the
\* construction of genai.Client, filepath.read_bytes() and
\* client.models.generate_content (a response with text, with empty text,
\* with no text, or an exception).
OCREnvs ==
    {[importOk |-> i, clientOk |-> c, readOk |-> r, api |-> a] :
        i \in BOOLEAN, c \in BOOLEAN, r \in BOOLEAN,
        a \in {"text", "empty", "none", "error"}}

\* One environment for each way a call can go: a step that is not reached
\* has no outcome to choose.
OCRCases ==
    {e \in OCREnvs :
        /\ (~e.importOk => e.clientOk /\ e.readOk /\ e.api = "text")
        /\ (~e.clientOk => e.readOk /\ e.api = "text")
        /\ (~e.readOk => e.api = "text")}

ResponseText(api) ==
    IF api = "text" THEN Str(ExtractedText)
    ELSE IF api = "empty" THEN Str(<< >>)
    ELSE NoneValue

OCRFileNotFound(file_path) == Str(<<OCRTag, " File not found: ">> \o file_path)
OCRImportError(e) ==
    Str(<<OCRTag, " Google GenAI not installed. Run: pip install google-genai. Error: ">> \o e)
OCRError(e) == Str(<<OCRTag, " Error processing file with Gemini: ">> \o e)

\* The call: [ret: the returned value, exit: the return statement taken,
\* called: whether generate_content was called]
OCRRun(files, file_path, env) ==
    IF ~env.importOk
    THEN [ret |-> OCRImportError(ImportErrorText), exit |-> "import_error",
          called |-> FALSE]
    ELSE IF ~env.clientOk
    THEN [ret |-> OCRError(ClientErrorText), exit |-> "exception",
          called |-> FALSE]
    ELSE IF ~Exists(files, file_path)
    THEN [ret |-> OCRFileNotFound(file_path), exit |-> "file_not_found",
          called |-> FALSE]
    ELSE IF ~env.readOk
    THEN [ret |-> OCRError(ReadErrorText(file_path)), exit |-> "exception",
          called |-> FALSE]
    ELSE IF env.api = "error"
    THEN [ret |-> OCRError(ServiceErrorText), exit |-> "exception",
          called |-> TRUE]
    ELSE [ret |-> ResponseText(env.api), exit |-> "response_text",
          called |-> TRUE]

----------------------------------------------------------------------------
(* FileWriterTool._run (tools/file_tool.py) *)

DotSlash == <<".", Slash>>

\* lines 62-74: the path the tool writes to
WriterFilePath(filename, directory) ==
    IF directory # << >> /\ directory # DotSlash
    THEN IF StartsWith(filename, directory) THEN filename
         ELSE IF \/ StartsWith(filename, <<"output", Slash>>)
                 \/ StartsWith(filename, <<"input", Slash>>)
                 \/ StartsWith(filename, DotSlash)
              THEN filename
              ELSE NormPath(directory \o <<Slash>> \o filename)
    ELSE filename

WriterExists(file_path) ==
    Str(<<"File already exists at ">> \o file_path
        \o <<". Set overwrite=true to replace it.">>)
WriterSuccess(content, file_path) ==
    Str(<<"Successfully wrote ", ToString(Len(content)), " characters to ">>
        \o file_path)
WriterError(e) == Str(<<"An error occurred while writing to the file: ">> \o e)
\* WriterRefuses without the test of the file
WriterNeverRefuses(files, file_path, overwrite) == FALSE

\* lines 82-83: the write is refused
WriterRefuses(files, file_path, overwrite) ==
    Exists(files, file_path) /\ ~overwrite

\* The call: [files: the file system after it, ret, exit, path]; deny is
\* the creation (of a parent directory, then of the file by open) that the
\* operating system refuses, 0 for none
FileWriterRun(files, filename, content, directory, overwrite, deny) ==
    LET file_path == WriterFilePath(filename, directory)
        dirs == PathMkdir(files, Parent(file_path), deny)
    IN  IF ~dirs.ok
        THEN [files |-> dirs.files, ret |-> WriterError(dirs.err),
              exit |-> "exception", path |-> file_path]
        ELSE IF WriterRefuses(dirs.files, file_path, overwrite)
        THEN [files |-> dirs.files, ret |-> WriterExists(file_path),
              exit |-> "exists", path |-> file_path]
        ELSE IF Exists(dirs.files, file_path) /\ ~IsFile(dirs.files, file_path)
        THEN [files |-> dirs.files,
              ret |-> WriterError(IsADirectoryText(NormPath(file_path))),
              exit |-> "exception", path |-> file_path]
        ELSE IF deny = dirs.made + 1
        THEN [files |-> dirs.files,
              ret |-> WriterError(PermissionDeniedText(NormPath(file_path))),
              exit |-> "exception", path |-> file_path]
        ELSE [files |-> WriteFile(dirs.files, file_path, content),
              ret |-> WriterSuccess(content, file_path),
              exit |-> "written", path |-> file_path]

----------------------------------------------------------------------------
(* LaTeXCompilerTool._run (tools/latex_tool.py) *)

CompileTimeout == 120
LatexTag == "[LaTeX Compiler]"
CompilerStderr == <<"! Undefined control sequence.">>
PdfContent == <<"%PDF">>
LogContent == <<"This is pdfTeX">>

\* What subprocess.run does: it finds no pdflatex, or pdflatex exceeds the
\* timeout, exits 0 or exits non-zero.
LatexEnvs == {"not_found", "timeout", "exit_zero", "exit_nonzero"}

\* result.stderr of a run that exits non-zero
Stderrs == {CompilerStderr, <<"! Emergency stop.", "\n", "l.3 \\end">>}

\* os.path.join(output_dir, name)
OsPathJoin(dir, name) ==
    IF dir = << >> THEN name
    ELSE IF dir[Len(dir)] = Slash THEN dir \o name
    ELSE dir \o <<Slash>> \o name

\* lines 49-50
PdfPath(tex_file_path, output_dir) ==
    OsPathJoin(output_dir, SplitextRoot(Basename(tex_file_path)) \o <<".pdf">>)

\* the transcript pdflatex writes into the output directory when it runs
LogPath(tex_file_path, output_dir) ==
    OsPathJoin(output_dir, SplitextRoot(Basename(tex_file_path)) \o <<".log">>)

LatexSuccess(pdf_path) == Str(<<"Successfully compiled LaTeX to PDF: ">> \o pdf_path)
\* LatexFailed with the diagnostic cut down to its first line
LatexFailedFirstLine(stderr) ==
    Str(<<"LaTeX compilation failed: ">> \o SubSeq(stderr, 1, 1))
LatexFailed(stderr) == Str(<<"LaTeX compilation failed: ">> \o stderr)
\* LatexNotFound without the except clause of line 55: the generic clause
\* of line 59 reports the exception
LatexNotFoundAsError ==
    Str(<<LatexTag, " Error: ", "[Errno 2] No such file or directory: 'pdflatex'">>)
LatexNotFound ==
    Str(<<LatexTag, " pdflatex not found. Please install a LaTeX distribution.">>)
LatexTimedOut ==
    Str(<<LatexTag, " Compilation timed out after ", ToString(CompileTimeout),
          " seconds.">>)
LatexError(e) == Str(<<LatexTag, " Error: ">> \o e)

\* calls of subprocess.run made when pdflatex exceeded the timeout with a
\* second attempt after the first
RunsWithRetry(env) == IF env = "timeout" THEN 2 ELSE 1

\* calls of subprocess.run made by one call of the tool once os.makedirs
\* has returned: the one of lines 41-46
RunsOnce(env) == 1

\* The call: [files, ret, exit, runs: calls of subprocess.run, timeout: the
\* timeout they were given]; deny is the creation of a directory that the
\* operating system refuses, 0 for none. The FileNotFoundError of
\* os.makedirs('') is caught by the clause of line 55.
LaTeXCompilerRun(files, tex_file_path, output_dir, env, stderr, deny) ==
    LET dirs == OsMakedirs(files, output_dir, deny)
        made == dirs.files
        logged == WriteFile(made, LogPath(tex_file_path, output_dir), LogContent)
    IN  IF ~dirs.ok /\ dirs.type = "FileNotFoundError"
        THEN [files |-> made, ret |-> LatexNotFound, exit |-> "not_found",
              runs |-> 0, timeout |-> 0]
        ELSE IF ~dirs.ok
        THEN [files |-> made, ret |-> LatexError(dirs.err),
              exit |-> "exception", runs |-> 0, timeout |-> 0]
        ELSE IF env = "not_found"
        THEN [files |-> made, ret |-> LatexNotFound, exit |-> "not_found",
              runs |-> RunsOnce(env), timeout |-> CompileTimeout]
        ELSE IF env = "timeout"
        THEN [files |-> logged, ret |-> LatexTimedOut, exit |-> "timeout",
              runs |-> RunsOnce(env), timeout |-> CompileTimeout]
        ELSE IF env = "exit_zero"
        THEN [files |-> WriteFile(logged, PdfPath(tex_file_path, output_dir),
                                  PdfContent),
              ret |-> LatexSuccess(PdfPath(tex_file_path, output_dir)),
              exit |-> "compiled", runs |-> RunsOnce(env),
              timeout |-> CompileTimeout]
        ELSE [files |-> logged, ret |-> LatexFailed(stderr),
              exit |-> "failed", runs |-> RunsOnce(env),
              timeout |-> CompileTimeout]

\* A tool result that reports a failure to the agent
ReportsFailure(name, ret) ==
    /\ ret.type = "str"
    /\ \/ name = "ocr" /\ StartsWith(ret.val, <<OCRTag>>)
       \/ name = "writer" /\ ~StartsWith(ret.val, <<"Successfully wrote ">>)
       \/ name = "latex" /\ ~StartsWith(ret.val, <<"Successfully compiled LaTeX to PDF: ">>)

----------------------------------------------------------------------------
(* The crew (crew.py) *)

\* TaskOrder with the first two tasks in the wrong order
TaskOrderSwapped ==
    <<"answer_matching_task", "ocr_extraction_task",
      "markdown_generation_task", "latex_book_compilation_task">>

\* the @task methods, in the order of their definition (lines 241-283)
TaskOrder ==
    <<"ocr_extraction_task", "answer_matching_task",
      "markdown_generation_task", "latex_book_compilation_task">>

\* process=Process.sequential (line 304)
CrewProcess == "sequential"

\* The tasks the crew may start once k tasks have completed: the next one of
\* the list under the sequential process, any task the manager delegates
\* under the hierarchical one.
StartableTasks(k) ==
    IF CrewProcess = "sequential" THEN {TaskOrder[k + 1]}
    ELSE {TaskOrder[i] : i \in 1..Len(TaskOrder)}

\* The job state in which a task runs
StateOfTask(t) ==
    IF t = "ocr_extraction_task" THEN "Extracting"
    ELSE IF t = "answer_matching_task" THEN "Matching"
    ELSE IF t = "markdown_generation_task" THEN "Formatting"
    ELSE "Compiling"

StageStates == {"Extracting", "Matching", "Formatting", "Compiling"}

\* the tools of the agent of each task (lines 140-170)
\* "crewai_writer" is the FileWriterTool of crewai_tools (line 19), not
\* the class of tools/file_tool.py, which no agent holds
ToolsOf(t) ==
    IF t = "ocr_extraction_task" THEN {"ocr", "crewai_writer"}
    ELSE IF t = "latex_book_compilation_task" THEN {"crewai_writer", "latex"}
    ELSE {"crewai_writer"}

\* _ensure_directories, lines 56-62
CrewDirectories ==
    <<<<"input", Slash, "question_sheets">>,
      <<"input", Slash, "answer_keys">>,
      <<"output", Slash, "extracted_questions">>,
      <<"output", Slash, "chapters">>,
      <<"output", Slash, "book">>>>

\* the steps of os.makedirs for each directory of dirs, one after another
RECURSIVE AllSteps(_)
AllSteps(dirs) ==
    IF dirs = << >> THEN << >>
    ELSE StepsOf(Head(dirs), FALSE) \o AllSteps(Tail(dirs))

\* the loop of lines 63-64 over dirs; deny is the creation of a directory
\* that the operating system refuses, counted over the whole loop, 0 for none
MakeAll(files, dirs, deny) ==
    Walked(files, AllSteps(dirs), Walk(files, AllSteps(dirs), 1, deny, 0))

\* GsetQuestionBank(): __init__ and _ensure_directories (lines 50-64)
EnsureDirectories(files, deny) == MakeAll(files, CrewDirectories, deny)

\* what the operating system does when the crew makes its directories:
\* it refuses none, the first or the second creation
DenyChoices == {0, 1, 2}

RequiredFields == <<"image_path", "chapter_number", "chapter_name", "subject">>
Today == "2024-01-01"

\* prepare_inputs, lines 87-95: defaults and the output file name
WithDefaults(d) ==
    LET d1 == SetDefault(d, "exam_name", "GSET")
        d2 == SetDefault(d1, "current_date", Today)
        d3 == SetDefault(d2, "author", "Yash Kavaiya")
    IN  IF "image_path" \in DOMAIN d3
        THEN Merge(d3, "filename" :> SplitextRoot(Basename(d3["image_path"])))
        ELSE d3

\* MissingFields that stops at the first missing field
MissingFieldsFirstOnly(d) ==
    LET missing == SelectNotIn(RequiredFields, d)
    IN  IF missing = << >> THEN << >> ELSE <<Head(missing)>>

\* prepare_inputs, lines 98-101
MissingFields(d) == SelectNotIn(RequiredFields, d)
MissingInputsError(missing) ==
    Exc("ValueError", <<"Missing required inputs: ">> \o ReprList(missing))

\* An exception that leaves a task: the agent framework or the model
\* endpoint failing. No tool raises into its task: each _run returns its
\* failure as a string.
TaskError == Exc("RuntimeError", <<"task execution failed">>)

NoTool ==
    [name |-> "none", path |-> << >>, content |-> << >>, overwrite |-> FALSE,
     existed |-> FALSE, called |-> FALSE, exit |-> "", ret |-> NoneValue,
     env |-> [importOk |-> TRUE, clientOk |-> TRUE, readOk |-> TRUE,
              api |-> "text"],
     dir |-> << >>, latex |-> "", stderr |-> << >>, runs |-> 0, timeout |-> 0,
     deny |-> 0]
NoFailure == [stage |-> "none", cause |-> NoExc]

CurrentTask == stageLog[Len(stageLog)]

\* the entry points that hand the crew to its train, test or replay method
EvalModes == {"train", "test", "replay"}

\* GsetQuestionBank() in the expression GsetQuestionBank().crew().kickoff(...)
\* (or .train, .test, .replay): the directories are made; an OSError leaves
\* the expression before the method of the crew is entered
Construct ==
    /\ pc = "construct"
    /\ jobState = "Pending"
    /\ \E deny \in DenyChoices :
         LET r == EnsureDirectories(fs, deny)
         IN  /\ fs' = r.files
             /\ IF r.ok
                THEN /\ pc' = IF mode \in EvalModes THEN "crew" ELSE "kickoff"
                     /\ UNCHANGED <<jobState, failure, jobLog>>
                ELSE /\ jobState' = "Failed"
                     /\ failure' = [stage |-> "Pending",
                                    cause |-> Exc(r.type, r.err)]
                     /\ jobLog' = Append(jobLog, [ev |-> "raised", job |-> idx,
                                                    exc |-> Exc(r.type, r.err)])
                     /\ pc' = pc
    /\ UNCHANGED <<mode, configExists, config, idx, results, inputs, stageLog,
                   failedTools, calls, tool, printed, raised, returned,
                   akVars, mdVars, inVars>>

\* kickoff, before the first task: the @before_kickoff hook
PrepareInputs ==
    /\ pc = "kickoff"
    /\ jobState = "Pending"
    /\ LET d == WithDefaults(inputs)
           missing == MissingFields(d)
       IN  /\ inputs' = d
           /\ IF missing # << >>
              THEN /\ jobState' = "Failed"
                   /\ failure' = [stage |-> "Pending",
                                  cause |-> MissingInputsError(missing)]
                   /\ stageLog' = stageLog
                   /\ jobLog' = Append(jobLog, [ev |-> "raised", job |-> idx,
                                                  exc |-> MissingInputsError(missing)])
              ELSE /\ \E t \in StartableTasks(0) :
                        /\ jobState' = StateOfTask(t)
                        /\ stageLog' = <<t>>
                   /\ UNCHANGED <<failure, jobLog>>
    /\ UNCHANGED <<mode, pc, configExists, config, idx, results, failedTools,
                   calls, tool, fs, printed, raised, returned, akVars, mdVars, inVars>>

\* the running task ends with the agent's answer; the crew starts the next
\* task, or kickoff returns after the last one
StageComplete ==
    /\ pc = "kickoff"
    /\ jobState \in StageStates
    /\ LET k == Len(stageLog)
       IN  IF k = Len(TaskOrder)
           THEN /\ jobState' = "Done"
                /\ stageLog' = stageLog
                /\ jobLog' = Append(jobLog, [ev |-> "returned", job |-> idx,
                                          exc |-> NoExc])
           ELSE /\ \E t \in StartableTasks(k) :
                     /\ jobState' = StateOfTask(t)
                     /\ stageLog' = Append(stageLog, t)
                /\ jobLog' = jobLog
    /\ tool' = NoTool
    /\ UNCHANGED <<mode, pc, configExists, config, idx, results, inputs,
                   failure, failedTools, calls, fs, printed, raised, returned,
                   akVars, mdVars, inVars>>

\* an exception leaves the running task: kickoff raises it
StageRaise ==
    /\ pc = "kickoff"
    /\ jobState \in StageStates
    /\ jobState' = "Failed"
    /\ failure' = [stage |-> jobState, cause |-> TaskError]
    /\ jobLog' = Append(jobLog, [ev |-> "raised", job |-> idx,
                                  exc |-> TaskError])
    /\ tool' = NoTool
    /\ UNCHANGED <<mode, pc, configExists, config, idx, results, inputs,
                   stageLog, failedTools, calls, fs, printed, raised, returned,
                   akVars, mdVars, inVars>>

----------------------------------------------------------------------------
(* Tool calls of the agent of the running task *)

\* filename and directory of a call: one pair for each branch of lines 62-74
WriterTargets ==
    {<<<<"a", ".md">>, << >>>>,
     <<<<"a", ".md">>, DotSlash>>,
     <<<<"a", ".md">>, <<"output", Slash, "chapters">>>>,
     <<<<"output", Slash, "chapters", Slash, "a", ".md">>, <<"output", Slash, "chapters">>>>,
     <<<<".", Slash, "a", ".md">>, <<"output", Slash, "chapters">>>>}
WriterContents == {<<"q">>, <<"r", "r">>}
TexFile == <<"output", Slash, "book", Slash, "main", ".tex">>
TexFiles == {TexFile, <<"gset", ".tex">>}
\* output_dir of a call: the default, the book directory, a directory to
\* be made, the path of a regular file, a path below a regular file, and
\* the empty string
OutputDirs ==
    {<<"output">>, <<"output", Slash, "book">>,
     <<"output", Slash, "pdf", Slash, "v1">>,
     <<"input", Slash, "question_sheets", Slash, "ch1", ".png">>,
     <<"input", Slash, "question_sheets", Slash, "ch1", ".png", Slash, "pdf",
       Slash, "v1">>,
     << >>}

\* One environment and diagnostic for each way a call can go
LatexCases ==
    {c \in LatexEnvs \X Stderrs : c[1] # "exit_nonzero" => c[2] = CompilerStderr}

CanCall(name) ==
    /\ pc = "kickoff"
    /\ jobState \in StageStates
    /\ name \in ToolsOf(CurrentTask)
    /\ calls < MaxToolCalls

Noted(name, ret) ==
    IF ReportsFailure(name, ret) THEN failedTools \cup {CurrentTask}
    ELSE failedTools

CallOCR ==
    /\ CanCall("ocr")
    /\ \E env \in OCRCases :
         LET file_path == inputs["image_path"]
             r == OCRRun(fs, file_path, env)
         IN  /\ tool' = [NoTool EXCEPT !.name = "ocr", !.path = file_path,
                            !.existed = Exists(fs, file_path),
                            !.called = r.called, !.exit = r.exit,
                            !.ret = r.ret, !.env = env]
             /\ failedTools' = Noted("ocr", r.ret)
    /\ calls' = calls + 1
    /\ UNCHANGED <<mode, pc, configExists, config, idx, results, inputs,
                   jobState, failure, stageLog, jobLog, fs, printed, raised,
                   returned, akVars, mdVars, inVars>>

\* the paths the agents write: in the working directory and in output/chapters
CrewaiTargets ==
    {<<"a", ".md">>, <<"output", Slash, "chapters", Slash, "a", ".md">>}

\* what FileWriterTool of crewai_tools returns: its code is not part of the
\* repository, its result is not interpreted
CrewaiResult == Str(<<"<result of crewai_tools.FileWriterTool>">>)

\* A call of the FileWriterTool the agents hold (crew.py lines 19, 144, 152,
\* 159, 167), a collaborator outside the repository: the file is written
\* or is left as it was
CallCrewaiFileWriter ==
    /\ CanCall("crewai_writer")
    /\ \E path \in CrewaiTargets, content \in WriterContents,
          written \in BOOLEAN :
         /\ fs' = IF written
                  THEN WriteFile(MakeDirs(fs, Parent(path)), path, content)
                  ELSE fs
         /\ tool' = [NoTool EXCEPT !.name = "crewai_writer", !.path = path,
                        !.content = content,
                        !.existed = Exists(fs, path),
                        !.exit = IF written THEN "written" ELSE "unchanged",
                        !.ret = CrewaiResult]
    /\ calls' = calls + 1
    /\ UNCHANGED <<mode, pc, configExists, config, idx, results, inputs,
                   jobState, failure, stageLog, jobLog, failedTools, printed,
                   raised, returned, akVars, mdVars, inVars>>

CallLaTeXCompiler ==
    /\ CanCall("latex")
    /\ \E tex_file_path \in TexFiles, output_dir \in OutputDirs,
          c \in LatexCases :
       \E deny \in 0..Cardinality(Ancestors(output_dir) \ DOMAIN fs) :
         LET r == LaTeXCompilerRun(fs, tex_file_path, output_dir, c[1], c[2],
                                   deny)
         IN  /\ fs' = r.files
             /\ tool' = [NoTool EXCEPT !.name = "latex", !.path = tex_file_path,
                            !.dir = output_dir, !.latex = c[1],
                            !.stderr = c[2], !.runs = r.runs,
                            !.timeout = r.timeout, !.deny = deny,
                            !.called = (r.runs > 0), !.exit = r.exit,
                            !.ret = r.ret]
             /\ failedTools' = Noted("latex", r.ret)
    /\ calls' = calls + 1
    /\ UNCHANGED <<mode, pc, configExists, config, idx, results, inputs,
                   jobState, failure, stageLog, jobLog, printed, raised,
                   returned, akVars, mdVars, inVars>>

----------------------------------------------------------------------------
(* main.py *)

DEFAULT_CONFIG ==
    ("exam_name" :> "GSET") @@ ("author" :> "Yash Kavaiya")
    @@ ("website" :> "https://gsetexam.blogspot.com/")
    @@ ("youtube" :> "https://youtube.com/playlist?list=PL6gpvClXEwJXRbutffBm0bjAwKfoaNlMw")
    @@ ("telegram" :> "t.me/gset_exam")
    @@ ("facebook" :> "https://www.facebook.com/GSETEXAM/")

Sheets == <<"input", Slash, "question_sheets", Slash>>
Keys == <<"input", Slash, "answer_keys", Slash>>
SampleImage == Sheets \o <<"sample_question_paper", ".png">>
SampleKey == Keys \o <<"sample_answer_key", ".txt">>
ImageThere == Sheets \o <<"ch1", ".png">>
ImageGone == Sheets \o <<"ch2", ".png">>
KeyFile == Keys \o <<"ch1_answers", ".txt">>
StaleArtifact == <<"output", Slash, "chapters", Slash, "a", ".md">>

Banner == <<"banner">>
SuccessText == <<"SUCCESS!">>
\* print_error (lines 413-415)
ErrorText(message) == <<"ERROR: ">> \o message

\* run, lines 58-67
RunInputs ==
    Merge(("image_path" :> SampleImage) @@ ("answer_key_file" :> SampleKey)
          @@ ("chapter_number" :> 1) @@ ("chapter_name" :> "Sample Chapter")
          @@ ("subject" :> "General Studies")
          @@ ("exam_name" :> DEFAULT_CONFIG["exam_name"])
          @@ ("current_date" :> Today),
          DEFAULT_CONFIG)

\* run_single, lines 104-113
RunSingleInputs(image_path, answer_key_file, chapter_number, chapter_name, subject) ==
    Merge(("image_path" :> image_path) @@ ("answer_key_file" :> answer_key_file)
          @@ ("chapter_number" :> chapter_number)
          @@ ("chapter_name" :> chapter_name) @@ ("subject" :> subject)
          @@ ("exam_name" :> DEFAULT_CONFIG["exam_name"])
          @@ ("current_date" :> Today),
          DEFAULT_CONFIG)

\* run_batch, lines 171-176
BatchInputs(cfg, chapter) ==
    Merge(Merge(chapter,
                ("exam_name" :> Get(cfg, "exam_name", DEFAULT_CONFIG["exam_name"]))
                @@ ("current_date" :> Today)),
          DEFAULT_CONFIG)

\* the message of the except clause of run (line 76) and run_single (line 122)
SingleErrorMessage(m, e) ==
    IF m = "run"
    THEN ErrorText(<<"An error occurred while running the crew: ">> \o e.msg)
    ELSE ErrorText(<<"An error occurred: ">> \o e.msg)

\* SingleReraise without the raise: the exception is swallowed
SingleSwallow(e) == NoExc

\* what the except clause of run / run_single lets out: the bare raise
SingleReraise(e) == e

\* NextChapter that stays at the chapter: the chapter is tried again
SameChapter(i) == i

\* the for loop of line 166: enumerate goes on to the next chapter
NextChapter(i) == i + 1

\* run_batch, line 180 and line 183
SuccessEntry(chapter, result) ==
    ("chapter" :> chapter) @@ ("result" :> result) @@ ("status" :> "success")
ErrorEntry(chapter, e) ==
    ("chapter" :> chapter) @@ ("result" :> NoneValue) @@ ("status" :> "error")
    @@ ("error" :> e.msg)

\* BatchAfterException with a raise in the except clause, as in run
BatchReraise(e) == [pc |-> "done", raised |-> e]

\* run_batch, lines 182-184: the except clause ends the iteration; the loop
\* goes on with the next chapter and nothing is raised
BatchAfterException(e) == [pc |-> "loop", raised |-> NoExc]

Chapters == Get(config, "chapters", << >>)

\* the try statement of a job is entered (lines 71, 117, 178)
StartKickoff(d) ==
    /\ inputs' = d
    /\ pc' = "construct"
    /\ jobState' = "Pending"
    /\ failure' = NoFailure
    /\ stageLog' = << >>
    /\ failedTools' = {}
    /\ calls' = 0
    /\ tool' = NoTool
    /\ jobLog' = Append(jobLog, [ev |-> "start", job |-> idx, exc |-> NoExc])

RunStart ==
    /\ mode = "run"
    /\ pc = "start"
    /\ printed' = Append(printed, Banner)
    /\ StartKickoff(RunInputs)
    /\ UNCHANGED <<mode, configExists, config, idx, results, fs, raised,
                   returned, akVars, mdVars, inVars>>

RunSingleStart ==
    /\ mode = "run_single"
    /\ pc = "start"
    /\ printed' = Append(printed, Banner)
    /\ \E image_path \in {ImageThere, ImageGone} :
         StartKickoff(RunSingleInputs(image_path, KeyFile, 1, "Chapter 1", "Math"))
    /\ UNCHANGED <<mode, configExists, config, idx, results, fs, raised,
                   returned, akVars, mdVars, inVars>>

\* run / run_single: kickoff returned (lines 72-74, 118-120)
SingleSuccess ==
    /\ mode \in {"run", "run_single"}
    /\ pc = "kickoff"
    /\ jobState = "Done"
    /\ printed' = Append(printed, SuccessText)
    /\ returned' = CrewOutput
    /\ pc' = "done"
    /\ UNCHANGED <<mode, configExists, config, idx, results, inputs, jobState,
                   failure, stageLog, jobLog, failedTools, calls, tool, fs,
                   raised, akVars, mdVars, inVars>>

\* run / run_single: kickoff raised (lines 75-77, 121-123)
SingleExcept ==
    /\ mode \in {"run", "run_single"}
    /\ pc \in {"construct", "kickoff"}
    /\ jobState = "Failed"
    /\ printed' = Append(printed, SingleErrorMessage(mode, failure.cause))
    /\ raised' = SingleReraise(failure.cause)
    /\ pc' = "done"
    /\ UNCHANGED <<mode, configExists, config, idx, results, inputs, jobState,
                   failure, stageLog, jobLog, failedTools, calls, tool, fs,
                   returned, akVars, mdVars, inVars>>

\* sys.argv after the name of the program: what the command line gives
\* train, test and replay
Argvs ==
    {<< >>, <<<<"2">>>>, <<<<"0">>>>, <<<<"2">>, <<"out", ".pkl">>>>,
     <<<<"train">>>>}

\* train, lines 300-307, and test, lines 332-339
TrainInputs ==
    Merge(("image_path" :> Sheets \o <<"training_sample", ".png">>)
          @@ ("answer_key_file" :> Keys \o <<"training_answers", ".txt">>)
          @@ ("chapter_number" :> 1) @@ ("chapter_name" :> "Training Sample")
          @@ ("subject" :> "Training"),
          DEFAULT_CONFIG)
TestInputs ==
    Merge(("image_path" :> Sheets \o <<"test_sample", ".png">>)
          @@ ("answer_key_file" :> Keys \o <<"test_answers", ".txt">>)
          @@ ("chapter_number" :> 1) @@ ("chapter_name" :> "Test Sample")
          @@ ("subject" :> "Test"),
          DEFAULT_CONFIG)

\* the inputs of the run a replay goes on with: those kept from the kickoff
\* of run, after prepare_inputs
StoredInputs == WithDefaults(RunInputs)

\* str(e) of the IndexError of sys.argv[1]
IndexErrorText == <<"list index out of range">>

\* the text print_error is given by train (line 321), test (line 352) and
\* replay (line 368)
EvalFailedText(m, e) ==
    IF m = "train" THEN ErrorText(<<"Training failed: ">> \o e.msg)
    ELSE IF m = "test" THEN ErrorText(<<"Testing failed: ">> \o e.msg)
    ELSE ErrorText(<<"Replay failed: ">> \o e.msg)

\* the exception, if any, of reading sys.argv: int(sys.argv[1]) in train
\* (line 310) and test (line 342), sys.argv[1] in replay (line 364)
ArgvError(m, a) ==
    IF m = "replay"
    THEN IF Len(a) < 1 THEN Exc("IndexError", IndexErrorText) ELSE NoExc
    ELSE IF Len(a) >= 1 /\ ~IsIntLiteral(Strip(a[1]))
         THEN IntValueError(a[1])
         ELSE NoExc

\* n_iterations of train (line 310) and test (line 342): the kickoffs the
\* crew makes; a replay goes through the tasks once
Iterations(m, a) ==
    IF m = "replay" THEN 1
    ELSE IF Len(a) >= 1 THEN IntOf(Strip(a[1]))
    ELSE IF m = "train" THEN 3 ELSE 1

\* what is printed before the crew is created (lines 313, 345, 365)
EvalAnnounce(m, a) ==
    IF m = "train"
    THEN <<"Training crew for ",
           IF Len(a) >= 1 THEN ToString(IntOf(Strip(a[1]))) ELSE "3",
           " iterations...">>
    ELSE IF m = "test"
    THEN <<"Testing crew with ">>
         \o (IF Len(a) >= 2 THEN a[2] ELSE <<"gpt-4">>) \o <<"...">>
    ELSE <<"Replaying from task: ">> \o a[1]

\* filename of train (line 311)
TrainFilename(a) == IF Len(a) >= 2 THEN a[2] ELSE <<"training_output", ".pkl">>

\* what train prints after the crew has been trained (line 319)
TrainDone(a) == <<"Training complete! Output saved to ">> \o TrainFilename(a)

\* train, test, replay up to the creation of the crew (lines 309-313,
\* 341-345, 363-365): the arguments are read and the announcement is
\* printed; an exception of reading them is printed and raised again
EvalStart ==
    /\ mode \in EvalModes
    /\ pc = "start"
    /\ IF ArgvError(mode, argv) # NoExc
       THEN /\ printed' = Append(printed,
                                 EvalFailedText(mode, ArgvError(mode, argv)))
            /\ raised' = ArgvError(mode, argv)
            /\ pc' = "done"
       ELSE /\ printed' = Append(printed, EvalAnnounce(mode, argv))
            /\ raised' = raised
            /\ pc' = "construct"
    /\ UNCHANGED <<mode, configExists, config, idx, results, inputs, jobState,
                   failure, stageLog, jobLog, failedTools, calls, tool, fs,
                   returned, akVars, mdVars, inVars>>

\* Crew.train and Crew.test, collaborators outside the repository, call
\* kickoff(inputs) once for each iteration: the hook prepare_inputs and the
\* tools of the repository are called back as in any job. calls counts the
\* tool calls of the whole run.
EvalKickoff ==
    /\ mode \in {"train", "test"}
    /\ pc = "crew"
    /\ idx < Iterations(mode, argv)
    /\ idx' = idx + 1
    /\ inputs' = IF mode = "train" THEN TrainInputs ELSE TestInputs
    /\ jobState' = "Pending"
    /\ failure' = NoFailure
    /\ stageLog' = << >>
    /\ failedTools' = {}
    /\ tool' = NoTool
    /\ jobLog' = Append(jobLog, [ev |-> "start", job |-> idx + 1, exc |-> NoExc])
    /\ pc' = "kickoff"
    /\ UNCHANGED <<mode, configExists, config, results, calls, fs, printed,
                   raised, returned, akVars, mdVars, inVars>>

\* Crew.replay, a collaborator outside the repository, takes the outputs of
\* the tasks before the task named from its storage and runs the tasks from
\* that one on; prepare_inputs is not called
EvalReplay ==
    /\ mode = "replay"
    /\ pc = "crew"
    /\ idx < Iterations(mode, argv)
    /\ idx' = idx + 1
    /\ inputs' = StoredInputs
    /\ \E k \in 1..Len(TaskOrder) :
         /\ stageLog' = SubSeq(TaskOrder, 1, k)
         /\ jobState' = StateOfTask(TaskOrder[k])
    /\ failure' = NoFailure
    /\ failedTools' = {}
    /\ tool' = NoTool
    /\ jobLog' = Append(jobLog, [ev |-> "replay", job |-> idx + 1, exc |-> NoExc])
    /\ pc' = "kickoff"
    /\ UNCHANGED <<mode, configExists, config, results, calls, fs, printed,
                   raised, returned, akVars, mdVars, inVars>>

\* the last task of an iteration or of the replay has ended
EvalKickoffEnd ==
    /\ mode \in EvalModes
    /\ pc = "kickoff"
    /\ jobState = "Done"
    /\ pc' = "crew"
    /\ UNCHANGED <<mode, configExists, config, idx, results, inputs, jobState,
                   failure, stageLog, jobLog, failedTools, calls, tool, fs,
                   printed, raised, returned, akVars, mdVars, inVars>>

\* the constructor, the hook or a task raised (lines 320-322, 351-353,
\* 367-369)
EvalExcept ==
    /\ mode \in EvalModes
    /\ pc \in {"construct", "kickoff"}
    /\ jobState = "Failed"
    /\ printed' = Append(printed, EvalFailedText(mode, failure.cause))
    /\ raised' = failure.cause
    /\ pc' = "done"
    /\ UNCHANGED <<mode, configExists, config, idx, results, inputs, jobState,
                   failure, stageLog, jobLog, failedTools, calls, tool, fs,
                   returned, akVars, mdVars, inVars>>

\* the method of the crew ends: it raises on its own account (no stored
\* task of that id, the evaluation failing), which is printed and raised
\* again, or it returns after its iterations, train having saved or not
\* saved its file (lines 314-322, 346-353, 366-369)
EvalFinish ==
    /\ mode \in EvalModes
    /\ pc = "crew"
    /\ \E crewRaises \in BOOLEAN, saved \in BOOLEAN :
         IF crewRaises
         THEN /\ printed' = Append(printed, EvalFailedText(mode, TaskError))
              /\ raised' = TaskError
              /\ UNCHANGED <<fs, returned>>
         ELSE /\ idx >= Iterations(mode, argv)
              /\ printed' = IF mode = "train"
                            THEN Append(printed, TrainDone(argv))
                            ELSE printed
              /\ returned' = NoneValue
              /\ fs' = IF mode = "train" /\ saved
                       THEN WriteFile(fs, TrainFilename(argv),
                                      <<"<training data>">>)
                       ELSE fs
              /\ raised' = raised
    /\ pc' = "done"
    /\ UNCHANGED <<mode, configExists, config, idx, results, inputs, jobState,
                   failure, stageLog, jobLog, failedTools, calls, tool,
                   akVars, mdVars, inVars>>

\* run_batch, lines 150-164
BatchLoad ==
    /\ mode = "batch"
    /\ pc = "start"
    /\ IF ~configExists
       THEN /\ printed' = printed \o <<Banner, ErrorText(<<"Config file not found: ", "batch_config.json">>)>>
            /\ returned' = NoneValue
            /\ pc' = "done"
       ELSE /\ printed' = Append(printed, Banner)
            /\ returned' = returned
            /\ pc' = "loop"
    /\ idx' = 1
    /\ results' = << >>
    /\ UNCHANGED <<mode, configExists, config, inputs, jobState, failure,
                   stageLog, jobLog, failedTools, calls, tool, fs, raised,
                   akVars, mdVars, inVars>>

\* run_batch, lines 166-179: an iteration up to the call of kickoff
BatchNext ==
    /\ mode = "batch"
    /\ pc = "loop"
    /\ idx <= Len(Chapters)
    /\ StartKickoff(BatchInputs(config, Chapters[idx]))
    /\ UNCHANGED <<mode, configExists, config, idx, results, fs, printed,
                   raised, returned, akVars, mdVars, inVars>>

\* run_batch, lines 180-181
BatchJobSuccess ==
    /\ mode = "batch"
    /\ pc = "kickoff"
    /\ jobState = "Done"
    /\ results' = Append(results, SuccessEntry(Chapters[idx], CrewOutput))
    /\ printed' = Append(printed, <<"Chapter ", ToString(idx), " completed successfully">>)
    /\ idx' = NextChapter(idx)
    /\ pc' = "loop"
    /\ UNCHANGED <<mode, configExists, config, inputs, jobState, failure,
                   stageLog, jobLog, failedTools, calls, tool, fs, raised,
                   returned, akVars, mdVars, inVars>>

\* run_batch, lines 182-184
BatchJobExcept ==
    /\ mode = "batch"
    /\ pc \in {"construct", "kickoff"}
    /\ jobState = "Failed"
    /\ results' = Append(results, ErrorEntry(Chapters[idx], failure.cause))
    /\ printed' = Append(printed,
            ErrorText(<<"Chapter ", ToString(idx), " failed: ">> \o failure.cause.msg))
    /\ idx' = NextChapter(idx)
    /\ pc' = BatchAfterException(failure.cause).pc
    /\ raised' = BatchAfterException(failure.cause).raised
    /\ UNCHANGED <<mode, configExists, config, inputs, jobState, failure,
                   stageLog, jobLog, failedTools, calls, tool, fs, returned,
                   akVars, mdVars, inVars>>

\* number of entries of rs with status 'success' (line 190)
RECURSIVE Successful(_)
Successful(rs) ==
    IF rs = << >> THEN 0
    ELSE (IF Head(rs)["status"] = "success" THEN 1 ELSE 0) + Successful(Tail(rs))

\* run_batch, lines 186-194
BatchSummary ==
    /\ mode = "batch"
    /\ pc = "loop"
    /\ idx > Len(Chapters)
    /\ printed' = printed \o
           <<<<"Successful: ", ToString(Successful(results)), "/", ToString(Len(Chapters))>>,
             <<"Failed: ", ToString(Len(Chapters) - Successful(results)), "/", ToString(Len(Chapters))>>>>
    /\ returned' = [type |-> "list", val |-> results]
    /\ pc' = "done"
    /\ UNCHANGED <<mode, configExists, config, idx, results, inputs, jobState,
                   failure, stageLog, jobLog, failedTools, calls, tool, fs,
                   raised, akVars, mdVars, inVars>>

----------------------------------------------------------------------------
(* Initial states *)

NoReturn == [type |-> "unset", val |-> << >>]

ChapterThere ==
    ("image_path" :> ImageThere) @@ ("answer_key_file" :> KeyFile)
    @@ ("chapter_number" :> 1) @@ ("chapter_name" :> "Introduction")
    @@ ("subject" :> "General Studies")
ChapterGone ==
    ("image_path" :> ImageGone) @@ ("answer_key_file" :> KeyFile)
    @@ ("chapter_number" :> 2) @@ ("chapter_name" :> "Methods")
    @@ ("subject" :> "General Studies")
ChapterNoImage ==
    ("answer_key_file" :> KeyFile) @@ ("chapter_number" :> 3)
    @@ ("chapter_name" :> "Results") @@ ("subject" :> "General Studies")
\* a scan of the same sheet: another directory, another extension, and an
\* exam name of its own
ChapterScan ==
    ("image_path" :> <<"input", Slash, "scans", Slash, "ch1", ".jpg">>)
    @@ ("answer_key_file" :> KeyFile) @@ ("chapter_number" :> 4)
    @@ ("chapter_name" :> "Scans") @@ ("subject" :> "General Studies")
    @@ ("exam_name" :> "SET")
\* an element without chapter_name and subject
ChapterBare ==
    ("image_path" :> ImageGone) @@ ("chapter_number" :> 5)
ChapterChoices ==
    {ChapterThere, ChapterGone, ChapterNoImage, ChapterScan, ChapterBare}

ChapterLists ==
    UNION {[1..n -> ChapterChoices] : n \in 0..MaxChapters}

Configs ==
    {("chapters" :> cs) : cs \in ChapterLists}
    \cup {("chapters" :> cs) @@ ("exam_name" :> "NET") : cs \in ChapterLists}
    \cup {EmptyDict}

\* the files present when the program starts: the sheet of chapter 1, and
\* maybe the sample sheet and an artifact left by an earlier run
InitialFiles ==
    {WithParents(f1 @@ f2 @@ (NormPath(ImageThere) :> <<"img">>)) :
        f1 \in {EmptyDict, NormPath(SampleImage) :> <<"img">>},
        f2 \in {EmptyDict, NormPath(StaleArtifact) :> <<"q">>}}

AkIdle ==
    /\ akSuffix = ""
    /\ akExists = FALSE
    /\ akContent = << >>
    /\ akData = [kind |-> "none", items |-> << >>]
    /\ akLines = << >>
    /\ akPos = 0
    /\ answers = << >>
    /\ akLast = << >>
    /\ akOut = NoneValue
    /\ akPc = "idle"

MdIdle ==
    /\ mdText = << >>
    /\ mdOut = << >>
    /\ mdCur = << >>
    /\ mdApplied = {}
    /\ mdPc = "idle"

\* nothing is typed: the entry point reads no prompt
NothingTyped ==
    [image |-> << >>, image2 |-> << >>, key |-> << >>, number |-> << >>,
     name |-> << >>, subject |-> << >>, confirm |-> << >>]
InIdle == typed = NothingTyped /\ argv = << >>

PipeIdle ==
    /\ pc = "start"
    /\ idx = 0
    /\ results = << >>
    /\ inputs = EmptyDict
    /\ jobState = "Pending"
    /\ failure = NoFailure
    /\ stageLog = << >>
    /\ jobLog = << >>
    /\ failedTools = {}
    /\ calls = 0
    /\ tool = NoTool
    /\ printed = << >>
    /\ raised = NoExc
    /\ returned = NoReturn

\* single-job mode: run and run_single
Init ==
    /\ mode \in {"run", "run_single"}
    /\ configExists = TRUE
    /\ config = EmptyDict
    /\ fs \in InitialFiles
    /\ PipeIdle
    /\ AkIdle
    /\ MdIdle
    /\ InIdle

Next ==
    \/ RunStart
    \/ RunSingleStart
    \/ Construct
    \/ PrepareInputs
    \/ CallOCR
    \/ CallCrewaiFileWriter
    \/ CallLaTeXCompiler
    \/ StageComplete
    \/ StageRaise
    \/ SingleSuccess
    \/ SingleExcept

Spec == Init /\ [][Next]_vars

\* train, test and replay
InitEval ==
    /\ mode \in EvalModes
    /\ configExists = TRUE
    /\ config = EmptyDict
    /\ fs \in InitialFiles
    /\ PipeIdle
    /\ AkIdle
    /\ MdIdle
    /\ typed = NothingTyped
    /\ argv \in Argvs

NextEval ==
    \/ EvalStart
    \/ Construct
    \/ EvalKickoff
    \/ EvalReplay
    \/ PrepareInputs
    \/ CallOCR
    \/ CallCrewaiFileWriter
    \/ CallLaTeXCompiler
    \/ StageComplete
    \/ StageRaise
    \/ EvalKickoffEnd
    \/ EvalExcept
    \/ EvalFinish

SpecEval == InitEval /\ [][NextEval]_vars

\* batch mode: run_batch over a configuration file. The tool calls inside a
\* stage are left to Spec: a tool returns its failures as strings, so the
\* calls change neither the outcome of a stage nor the course of the batch.
InitBatch ==
    /\ mode = "batch"
    /\ configExists \in BOOLEAN
    /\ config \in Configs
    /\ fs = WithParents(NormPath(ImageThere) :> <<"img">>)
    /\ PipeIdle
    /\ AkIdle
    /\ MdIdle
    /\ InIdle

NextBatch ==
    \/ BatchLoad
    \/ BatchNext
    \/ Construct
    \/ PrepareInputs
    \/ StageComplete
    \/ StageRaise
    \/ BatchJobSuccess
    \/ BatchJobExcept
    \/ BatchSummary

SpecBatch == InitBatch /\ [][NextBatch]_vars

----------------------------------------------------------------------------
(* Calls of FileWriterTool._run (tools/file_tool.py), the class called on *)
(* its own: no agent of the crew holds it                                 *)

\* One call of the tool
WriterCall ==
    /\ mode = "file_writer"
    /\ calls < MaxWrites
    /\ \E target \in WriterTargets, content \in WriterContents,
          overwrite \in BOOLEAN :
       \E deny \in 0..(Cardinality(Ancestors(Parent(WriterFilePath(target[1],
                                          target[2]))) \ DOMAIN fs) + 1) :
         LET r == FileWriterRun(fs, target[1], content, target[2], overwrite,
                                deny)
         IN  /\ fs' = r.files
             /\ tool' = [NoTool EXCEPT !.name = "writer", !.path = r.path,
                            !.content = content, !.overwrite = overwrite,
                            !.existed = Exists(fs, r.path),
                            !.exit = r.exit, !.ret = r.ret]
    /\ calls' = calls + 1
    /\ UNCHANGED <<mode, pc, configExists, config, idx, results, inputs,
                   jobState, failure, stageLog, jobLog, failedTools, printed,
                   raised, returned, akVars, mdVars, inVars>>

\* the files present before the first call: the sheet, and maybe artifacts
\* of an earlier run, the directory of the chapters, or a regular file
\* named output
WriterFiles ==
    {WithParents(f @@ (NormPath(ImageThere) :> <<"img">>)) :
        f \in {EmptyDict,
               NormPath(StaleArtifact) :> <<"q">>,
               <<"a", ".md">> :> <<"q">>,
               (NormPath(StaleArtifact) :> <<"q">>) @@ (<<"a", ".md">> :> <<"r", "r">>),
               <<"output">> :> <<"x">>,
               <<"output">> :> Directory,
               <<"output", Slash, "chapters", Slash, "a", ".md">> :> Directory}}

InitWriter ==
    /\ mode = "file_writer"
    /\ configExists = FALSE
    /\ config = EmptyDict
    /\ fs \in WriterFiles
    /\ PipeIdle
    /\ AkIdle
    /\ MdIdle
    /\ InIdle

NextWriter == WriterCall

SpecWriter == InitWriter /\ [][NextWriter]_vars

----------------------------------------------------------------------------
(* Properties of the orchestration *)

LogHas(ev, k) == \E i \in 1..Len(jobLog) : jobLog[i].ev = ev /\ jobLog[i].job = k

\* C1: run_batch over a config with N chapters ends by returning a list of
\* exactly N entries in config order; the pipeline of every chapter was
\* started, whichever pipelines raised; the entry of a chapter whose pipeline
\* raised has status 'error', result None and the text of the exception, and
\* the entry of a chapter whose pipeline returned has status 'success'.
C1_BatchIsolatesFailures ==
    (mode = "batch" /\ pc = "done" /\ configExists) =>
        /\ returned.type = "list"
        /\ returned.val = results
        /\ raised = NoExc
        /\ Len(results) = Len(Chapters)
        /\ \A k \in 1..Len(Chapters) :
            /\ results[k]["chapter"] = Chapters[k]
            /\ LogHas("start", k)
            /\ \A i \in 1..Len(jobLog) :
                (jobLog[i].job = k /\ jobLog[i].ev = "raised") =>
                    /\ results[k]["status"] = "error"
                    /\ results[k]["result"] = NoneValue
                    /\ "error" \in DOMAIN results[k]
                    /\ results[k]["error"] = jobLog[i].exc.msg
            /\ LogHas("returned", k) => results[k]["status"] = "success"

\* a batch of three chapters whose second pipeline raised and whose first
\* and third returned
C1_Witness ==
    /\ mode = "batch"
    /\ pc = "done"
    /\ Len(Chapters) = 3
    /\ Len(results) = 3
    /\ LogHas("returned", 1) /\ LogHas("raised", 2) /\ LogHas("returned", 3)
    /\ results[2]["status"] = "error"

JobSteps ==
    {<<"Pending", "Extracting">>, <<"Extracting", "Matching">>,
     <<"Matching", "Formatting">>, <<"Formatting", "Compiling">>,
     <<"Compiling", "Done">>}
    \cup {<<s, "Failed">> :
            s \in {"Pending", "Extracting", "Matching", "Formatting", "Compiling"}}

StagesInOrder ==
    <<"ocr_extraction_task", "answer_matching_task",
      "markdown_generation_task", "latex_book_compilation_task">>

\* a job begins: its try statement is entered, the crew starts an iteration
\* of train or test, or a replay takes a stored job up at one of its tasks
JobBegins ==
    /\ Len(jobLog') = Len(jobLog) + 1
    /\ jobLog'[Len(jobLog')].ev \in {"start", "replay"}

\* C2: within a job the job state only moves along Pending -> Extracting ->
\* Matching -> Formatting -> Compiling -> Done or from a non-terminal state
\* to Failed, never leaves Done or Failed, and the stages started so far are
\* an initial part of Extraction, Matching, Formatting, Compilation, a stage
\* being started in the step that completes its predecessor. A job begins
\* in Pending with no stage started, or, taken up by a replay, at a stage
\* whose predecessors were completed when the job was first run.
C2_StageOrder ==
    [][/\ Len(stageLog') <= Len(StagesInOrder)
       /\ stageLog' = SubSeq(StagesInOrder, 1, Len(stageLog'))
       /\ IF JobBegins
          THEN jobState' = IF stageLog' = << >> THEN "Pending"
                           ELSE StateOfTask(stageLog'[Len(stageLog')])
          ELSE /\ jobState' # jobState => <<jobState, jobState'>> \in JobSteps
               /\ stageLog' # stageLog =>
                    /\ stageLog' = Append(stageLog,
                                          StagesInOrder[Len(stageLog) + 1])
                    /\ jobState' =
                         StateOfTask(StagesInOrder[Len(stageLog) + 1])]_vars

\* a job that went through the four stages and is Done
C2_Witness == jobState = "Done" /\ Len(stageLog) = 4 /\ pc = "done"

\* C3: when a tool of a stage has reported a failure, that stage is the last
\* one started and the job does not end in Done.
C3_HaltsOnToolFailure ==
    \A t \in failedTools :
        /\ stageLog[Len(stageLog)] = t
        /\ jobState # "Done"

\* C4: in run and run_single, when the pipeline has raised, the entry point
\* ends with the error message printed last, the same exception raised to
\* the caller, nothing returned and no success message printed.
C4_SingleModeReraises ==
    (mode \in {"run", "run_single"} /\ jobState = "Failed") =>
        /\ pc \in {"construct", "kickoff", "done"}
        /\ returned = NoReturn
        /\ \A i \in 1..Len(printed) : printed[i] # SuccessText
        /\ pc = "done" =>
            /\ raised = failure.cause
            /\ raised # NoExc
            /\ printed[Len(printed)] = SingleErrorMessage(mode, failure.cause)
            /\ Contains(printed[Len(printed)], failure.cause.msg)

\* run_single ended by raising the exception of a stage
C4_Witness ==
    /\ mode = "run_single"
    /\ pc = "done"
    /\ jobState = "Failed"
    /\ failure.stage = "Matching"
    /\ raised = TaskError

\* C5: for a job whose image_path names no file, the OCR tool returns the
\* missing-input failure without calling the recognition service, and the
\* job does not go beyond the Extraction stage.
C5_MissingInputFirst ==
    (jobState # "Pending" /\ pc = "kickoff" /\ jobState # "Failed"
     /\ ~Exists(fs, inputs["image_path"])) =>
        /\ tool.name = "ocr" =>
            /\ tool.ret = OCRFileNotFound(inputs["image_path"])
            /\ ~tool.called
        /\ jobState = "Extracting"

\* the three failure conditions of a call of the OCR tool
OCRMissing == tool.name = "ocr" /\ ~tool.existed
OCRUnavailable ==
    /\ tool.name = "ocr" /\ tool.existed /\ tool.env.importOk /\ tool.env.readOk
    /\ (~tool.env.clientOk \/ tool.env.api = "error")
OCRNoContent ==
    /\ tool.name = "ocr" /\ tool.existed /\ tool.env.importOk /\ tool.env.readOk
    /\ tool.env.clientOk /\ tool.env.api \in {"empty", "none"}

\* the kind of a failure result: the text that follows the tag of the tool
FailureKind(ret) == ret.val[2]

\* C6: each of the three conditions gives a result that reports a failure,
\* and the three failures are of different kinds.
C6_DistinctFailures ==
    /\ (OCRMissing /\ tool.env.importOk /\ tool.env.clientOk) =>
            /\ ReportsFailure("ocr", tool.ret)
            /\ FailureKind(tool.ret) = " File not found: "
    /\ OCRUnavailable =>
            /\ ReportsFailure("ocr", tool.ret)
            /\ FailureKind(tool.ret) = " Error processing file with Gemini: "
    /\ OCRNoContent =>
            /\ ReportsFailure("ocr", tool.ret)
            /\ FailureKind(tool.ret) \notin
                {" File not found: ", " Error processing file with Gemini: "}

WriterStep == calls' = calls + 1 /\ tool'.name = "writer"

\* C7: when a write of FileWriterTool has returned to the stage that made
\* it, so that the stage can end and the next one start, the file at the
\* target path holds the content of that write.
C7_PersistedBeforeNextStage ==
    tool.name = "writer" =>
        /\ Exists(fs, tool.path)
        /\ fs[NormPath(tool.path)] = tool.content

Artifacts == {p \in DOMAIN fs : ~StartsWith(p, <<"input">>)}

\* C8: a write of FileWriterTool never changes the content of an artifact
\* that is already on disk.
C8_NeverRewritten ==
    [][WriterStep =>
        \A p \in Artifacts : p \in DOMAIN fs' /\ fs'[p] = fs[p]]_vars

\* C8 as amended: a write of FileWriterTool removes no file, and changes the
\* content of a file already on disk only when it is the target of the write
\* and overwrite is true.
C8_ChangedOnlyByOverwrite ==
    [][WriterStep =>
        \A p \in DOMAIN fs :
            /\ p \in DOMAIN fs'
            /\ fs'[p] # fs[p] => (tool'.overwrite /\ NormPath(tool'.path) = p)]_vars

\* a write with overwrite=False met a file written before and was refused
C8_Witness ==
    /\ tool.name = "writer"
    /\ tool.existed
    /\ ~tool.overwrite
    /\ tool.exit = "exists"
    /\ fs[NormPath(tool.path)] # tool.content

----------------------------------------------------------------------------
(* AnswerKeyParserTool._run (tools/file_tool.py); text is a sequence of    *)
(* characters here                                                         *)

MaxLineLen == 4
MaxJsonLen == 3

\* str.upper(), character by character
UpperChar(c) ==
    IF c = "a" THEN "A" ELSE IF c = "b" THEN "B" ELSE IF c = "c" THEN "C"
    ELSE IF c = "d" THEN "D" ELSE IF c = "e" THEN "E" ELSE c
Upper(s) == [i \in 1..Len(s) |-> UpperChar(s[i])]

\* sep in line
In(sep, line) == IndexOf(line, sep) # 0

\* JSON values: a string, a number or null
JStr(s) == [t |-> "str", s |-> s, n |-> 0]
JNum(n) == [t |-> "num", s |-> << >>, n |-> n]
JNull == [t |-> "null", s |-> << >>, n |-> 0]

\* str(v) of a value loaded from JSON
PyStr(v) ==
    IF v.t = "str" THEN v.s
    ELSE IF v.t = "num" THEN <<ToString(v.n)>>
    ELSE <<"None">>

\* A dict in insertion order: a sequence of [key, val] with distinct keys
KeyIndex(d, k) ==
    IF \E i \in 1..Len(d) : d[i].key = k
    THEN CHOOSE i \in 1..Len(d) : d[i].key = k
    ELSE 0

\* d[k] = v
DictSet(d, k, v) ==
    IF KeyIndex(d, k) # 0
    THEN [d EXCEPT ![KeyIndex(d, k)] = [key |-> k, val |-> v]]
    ELSE Append(d, [key |-> k, val |-> v])

Separators == <<".", ",", ":", "\t", " ">>
Labels == {<<"A">>, <<"B">>, <<"C">>, <<"D">>}

\* line 141
QNumOf(part) == Strip(part)

\* AnswerOf without the upper()
AnswerNoUpper(part) == Strip(part)

\* line 142
AnswerOf(part) == Upper(Strip(part))

\* lines 137-145: the separators are tried in order from the i-th on, and
\* the first one that gives a label sets the entry
RECURSIVE TrySeparators(_, _, _)
TrySeparators(d, line, i) ==
    IF i > Len(Separators) THEN d
    ELSE IF In(Separators[i], line)
    THEN LET parts == Split1(line, Separators[i])
         IN  IF Len(parts) = 2 /\ AnswerOf(parts[2]) \in Labels
             THEN DictSet(d, QNumOf(parts[1]), JStr(AnswerOf(parts[2])))
             ELSE TrySeparators(d, line, i + 1)
    ELSE TrySeparators(d, line, i + 1)

\* lines 132-145: one iteration of the loop over the lines
ParseLine(d, raw) ==
    LET line == Strip(raw)
    IN  IF line = << >> THEN d ELSE TrySeparators(d, line, 1)

\* lines 121-127: the JSON branch
RECURSIVE FromList(_, _)
FromList(d, items) ==
    IF items = << >> THEN d
    ELSE LET item == Head(items)
         IN  IF item.isDict /\ item.hasQ /\ item.hasA
             THEN FromList(DictSet(d, PyStr(item.q), item.a), Tail(items))
             ELSE FromList(d, Tail(items))

FromJson(data) ==
    IF data.kind = "dict" THEN data.items
    ELSE IF data.kind = "list" THEN FromList(<< >>, data.items)
    ELSE << >>

\* json.dumps(answers, indent=2)
DumpValue(v) ==
    IF v.t = "str" THEN <<"\"">> \o v.s \o <<"\"">>
    ELSE IF v.t = "num" THEN <<ToString(v.n)>>
    ELSE <<"null">>
RECURSIVE DumpItems(_)
DumpItems(d) ==
    IF d = << >> THEN << >>
    ELSE <<"\n", "  ", "\"">> \o d[1].key \o <<"\"", ": ">> \o DumpValue(d[1].val)
         \o (IF Len(d) > 1 THEN <<",">> ELSE <<"\n">>) \o DumpItems(Tail(d))
JsonDumps(d) ==
    IF d = << >> THEN <<"{}">> ELSE <<"{">> \o DumpItems(d) \o <<"}">>

\* open(path, 'r') and f.read(), lines 114-115: in text mode "\r\n" and a
\* lone "\r" are read as "\n"
RECURSIVE ReadText(_)
ReadText(s) ==
    IF s = << >> THEN << >>
    ELSE IF s[1] = "\r"
    THEN <<"\n">> \o ReadText(IF Len(s) > 1 /\ s[2] = "\n"
                              THEN SubSeq(s, 3, Len(s)) ELSE Tail(s))
    ELSE <<s[1]>> \o ReadText(Tail(s))

\* json.loads (line 121) on a text without quotes, brackets, signs and
\* literals: a number, an empty object, or a JSONDecodeError. A position is
\* the number of characters before it.
JsonWhitespace == {" ", "\t", "\n", "\r"}

RECURSIVE SkipWhitespace(_, _)
SkipWhitespace(s, i) ==
    IF i < Len(s) /\ s[i + 1] \in JsonWhitespace THEN SkipWhitespace(s, i + 1)
    ELSE i

\* str(e) of JSONDecodeError(msg, doc, pos)
JSONDecodeError(msg, doc, pos) ==
    LET newlines == {j \in 1..pos : doc[j] = "\n"}
        last == IF newlines = {} THEN 0
                ELSE CHOOSE j \in newlines : \A k \in newlines : k <= j
    IN  <<msg, ": line ", ToString(Cardinality(newlines) + 1), " column ",
          ToString(pos - last + 1), " (char ", ToString(pos), ")">>

RECURSIVE DigitsEnd(_, _)
DigitsEnd(s, i) ==
    IF i < Len(s) /\ s[i + 1] \in Digits THEN DigitsEnd(s, i + 1) ELSE i

\* where the number that starts at i ends: (0|[1-9]\d*)(\.\d+)?
NumberEnd(s, i) ==
    LET int == IF s[i + 1] = "0" THEN i + 1 ELSE DigitsEnd(s, i)
    IN  IF int + 1 < Len(s) /\ s[int + 1] = "." /\ s[int + 2] \in Digits
        THEN DigitsEnd(s, int + 1)
        ELSE int

JsonOk(data, end) == [ok |-> TRUE, data |-> data, end |-> end, err |-> << >>]
JsonFail(msg, doc, pos) ==
    [ok |-> FALSE, data |-> [kind |-> "none", items |-> << >>], end |-> pos,
     err |-> JSONDecodeError(msg, doc, pos)]

\* scan_once(s, i): the value that starts at i
ScanOnce(s, i) ==
    IF i >= Len(s) THEN JsonFail("Expecting value", s, i)
    ELSE IF s[i + 1] = "{"
    THEN LET j == SkipWhitespace(s, i + 1)
         IN  IF j < Len(s) /\ s[j + 1] = "}"
             THEN JsonOk([kind |-> "dict", items |-> << >>], j + 1)
             ELSE JsonFail("Expecting property name enclosed in double quotes",
                           s, j)
    ELSE IF s[i + 1] \in Digits
    THEN JsonOk([kind |-> "other", items |-> << >>], NumberEnd(s, i))
    ELSE JsonFail("Expecting value", s, i)

\* JSONDecoder.decode: a value with whitespace around it and nothing else
JsonLoads(s) ==
    LET r == ScanOnce(s, SkipWhitespace(s, 0))
        end == SkipWhitespace(s, r.end)
    IN  IF ~r.ok THEN r
        ELSE IF end # Len(s) THEN JsonFail("Extra data", s, end)
        ELSE r

\* the document of the file: json.loads of its characters, or the document
\* given as such
Loaded ==
    IF akData.kind = "text" THEN JsonLoads(ReadText(akContent))
    ELSE JsonOk(akData, 0)

AkNotFound == Str(<<"Error: Answer key not found at ", "key file">>)
\* line 150, e the text of the exception
AkParseError(e) == Str(<<"Error parsing answer key: ">> \o e)
AkIsError(ret) ==
    ret.val # << >>
    /\ ret.val[1] \in {"Error: Answer key not found at ", "Error parsing answer key: "}

\* lines 109-127: up to the loop over the lines; the JSON branch is run whole
AkOpen ==
    /\ akPc = "start"
    /\ IF ~akExists
       THEN /\ akOut' = AkNotFound
            /\ akPc' = "done"
            /\ UNCHANGED <<answers, akLines, akPos>>
       ELSE IF akSuffix = ".json"
       THEN IF ~Loaded.ok
            THEN /\ akOut' = AkParseError(Loaded.err)
                 /\ akPc' = "done"
                 /\ UNCHANGED <<answers, akLines, akPos>>
            ELSE /\ answers' = FromJson(Loaded.data)
                 /\ akOut' = Str(JsonDumps(FromJson(Loaded.data)))
                 /\ akPc' = "done"
                 /\ UNCHANGED <<akLines, akPos>>
       ELSE /\ akLines' = Split(Strip(ReadText(akContent)), "\n")
            /\ akPos' = 1
            /\ akPc' = "lines"
            /\ UNCHANGED <<answers, akOut>>
    /\ UNCHANGED <<akSuffix, akExists, akContent, akData, akLast, pipeVars, mdVars, inVars>>

\* lines 131-145: one iteration
AkLine ==
    /\ akPc = "lines"
    /\ akPos <= Len(akLines)
    /\ answers' = ParseLine(answers, akLines[akPos])
    /\ akLast' = akLines[akPos]
    /\ akPos' = akPos + 1
    /\ UNCHANGED <<akSuffix, akExists, akContent, akData, akLines, akOut,
                   akPc, pipeVars, mdVars, inVars>>

\* line 147
AkReturn ==
    /\ akPc = "lines"
    /\ akPos > Len(akLines)
    /\ akOut' = Str(JsonDumps(answers))
    /\ akPc' = "done"
    /\ UNCHANGED <<akSuffix, akExists, akContent, akData, akLines, akPos,
                   answers, akLast, pipeVars, mdVars, inVars>>

\* The files given to the parser
Alphabet == {"1", "2", ".", ",", ":", "\t", " ", "a", "B", "E"}
OneLine == UNION {[1..n -> Alphabet] : n \in 0..MaxLineLen}
ExampleKey == <<"1", ".", " ", "A", "\n", "2", ",", "B", "\n", "3", ":", "C">>
ManyLines ==
    {ExampleKey,
     <<"1", ".", "a", "\n", "1", ":", "B">>,
     <<"\n", "1", " ", "a", "\r", "\n", "\n", " ", "2", "\t", "D", "\n">>,
     <<"1", " ", ".", " ", "c", "\n", "x", "\n", "2", "=", "A">>}

JValues == {JStr(<<"A">>), JStr(<<"b">>), JStr(<<"E">>), JNum(1), JNull}
JKeys == {<<"1">>, <<"2">>}
JDicts ==
    {<< >>} \cup {<<[key |-> k, val |-> v]>> : k \in JKeys, v \in JValues}
    \cup {<<[key |-> <<"1">>, val |-> v], [key |-> <<"2">>, val |-> w]>> :
            v \in JValues, w \in JValues}
JItems ==
    {[isDict |-> TRUE, hasQ |-> TRUE, q |-> q, hasA |-> TRUE, a |-> a] :
        q \in {JStr(<<"1">>), JNum(2)}, a \in JValues}
    \cup {[isDict |-> TRUE, hasQ |-> TRUE, q |-> JNum(1), hasA |-> FALSE, a |-> JNull],
          [isDict |-> FALSE, hasQ |-> FALSE, q |-> JNull, hasA |-> FALSE, a |-> JNull]}
JLists == UNION {[1..n -> JItems] : n \in 0..2}
JsonDocs ==
    {[kind |-> "dict", items |-> d] : d \in JDicts}
    \cup {[kind |-> "list", items |-> l] : l \in JLists}
    \cup {[kind |-> "other", items |-> << >>]}

\* JSON files given by their characters: numbers, empty objects and texts
\* that are not JSON
JsonAlphabet == {"1", "0", ".", " ", "\n", "A", "{", "}"}
JsonTexts == UNION {[1..n -> JsonAlphabet] : n \in 0..MaxJsonLen}

InitParser ==
    /\ mode = "answer_key_parser"
    /\ configExists = FALSE
    /\ config = EmptyDict
    /\ fs = EmptyDict
    /\ PipeIdle
    /\ MdIdle
    /\ InIdle
    /\ akExists \in BOOLEAN
    /\ \/ /\ akSuffix = ".json"
          /\ \/ /\ akData \in JsonDocs
                /\ akContent = << >>
             \/ /\ akData = [kind |-> "text", items |-> << >>]
                /\ akContent \in JsonTexts
       \/ /\ akSuffix = ".txt"
          /\ akData = [kind |-> "none", items |-> << >>]
          /\ akContent \in OneLine \cup ManyLines
    /\ akLines = << >>
    /\ akPos = 0
    /\ answers = << >>
    /\ akLast = << >>
    /\ akOut = NoneValue
    /\ akPc = "start"

NextParser == AkOpen \/ AkLine \/ AkReturn

SpecParser == InitParser /\ [][NextParser]_vars

----------------------------------------------------------------------------
(* Properties of the answer key parser *)

Blank == {" ", "\t", "\r"}
SeparatorChars == {".", ",", ":", "\t", " "}
LabelChars == {"a", "b", "c", "d", "A", "B", "C", "D"}
LabelOf(c) ==
    CASE c \in {"a", "A"} -> "A"
      [] c \in {"b", "B"} -> "B"
      [] c \in {"c", "C"} -> "C"
      [] c \in {"d", "D"} -> "D"

\* line is <id><separator><label>: blanks, the id at a..b, blanks, the
\* separator at i, blanks, the label at c, blanks
WellFormedAt(line, a, b, i, c) ==
    /\ 1 <= a /\ a <= b /\ b < i /\ i < c /\ c <= Len(line)
    /\ \A j \in 1..(a - 1) : line[j] \in Blank
    /\ \A j \in a..b : line[j] \notin Blank \cup SeparatorChars
    /\ \A j \in (b + 1)..(i - 1) : line[j] \in Blank
    /\ line[i] \in SeparatorChars
    /\ \A j \in (i + 1)..(c - 1) : line[j] \in Blank
    /\ line[c] \in LabelChars
    /\ \A j \in (c + 1)..Len(line) : line[j] \in Blank

HasEntry(d, k, v) == \E n \in 1..Len(d) : d[n].key = k /\ d[n].val = v

ExampleAnswers ==
    <<[key |-> <<"1">>, val |-> JStr(<<"A">>)],
      [key |-> <<"2">>, val |-> JStr(<<"B">>)],
      [key |-> <<"3">>, val |-> JStr(<<"C">>)]>>

\* C9: the iteration over a line of the form <id><separator><label> leaves
\* the entry id -> upper-cased label in the answers, and the content
\* "1. A\n2,B\n3:C" is parsed to {"1": "A", "2": "B", "3": "C"}.
C9_LineFormat ==
    [][/\ (akPc = "lines" /\ akPos' = akPos + 1) =>
            \A a, b, i, c \in 1..Len(akLines[akPos]) :
                WellFormedAt(akLines[akPos], a, b, i, c) =>
                    HasEntry(answers', SubSeq(akLines[akPos], a, b),
                             JStr(<<LabelOf(akLines[akPos][c])>>))
       /\ (akPc' = "done" /\ akExists /\ akSuffix # ".json"
           /\ akContent = ExampleKey) =>
            /\ answers' = ExampleAnswers
            /\ akOut' = Str(JsonDumps(ExampleAnswers))]_vars

\* the example key has been parsed
C9_Witness ==
    /\ akPc = "done"
    /\ akContent = ExampleKey
    /\ answers = ExampleAnswers

\* C10: when the parser returns a mapping, every value of it is one of the
\* labels A, B, C, D.
C10_ValuesAreLabels ==
    (akPc = "done" /\ akExists /\ ~AkIsError(akOut)) =>
        \A n \in 1..Len(answers) : answers[n].val \in {JStr(l) : l \in Labels}

----------------------------------------------------------------------------
(* MarkdownToLaTeXTool._run (tools/latex_tool.py); text is a sequence of   *)
(* characters, and the text a substitution puts in (a LaTeX command with   *)
(* its brace, a closing brace) is one token each                           *)

MaxMdLen == 5

Newline == "\n"
\* the character that delimits inline code (a grave accent)
Backtick == "<grave>"
\* the conversions list (lines 91-108), in its order
Conversions ==
    <<[kind |-> "line", pat |-> <<"#", " ">>, open |-> "\\chapter{", close |-> <<"}">>],
      [kind |-> "line", pat |-> <<"#", "#", " ">>, open |-> "\\section{", close |-> <<"}">>],
      [kind |-> "line", pat |-> <<"#", "#", "#", " ">>, open |-> "\\subsection{", close |-> <<"}">>],
      [kind |-> "line", pat |-> <<"#", "#", "#", "#", " ">>, open |-> "\\subsubsection{", close |-> <<"}">>],
      [kind |-> "inline", pat |-> <<"*", "*">>, open |-> "\\textbf{", close |-> <<"}">>],
      [kind |-> "inline", pat |-> <<"*">>, open |-> "\\textit{", close |-> <<"}">>],
      [kind |-> "inline", pat |-> <<Backtick>>, open |-> "\\texttt{", close |-> <<"}">>],
      [kind |-> "line", pat |-> <<"-", " ">>, open |-> "\\item ", close |-> << >>],
      [kind |-> "numbered", pat |-> <<".", " ">>, open |-> "\\item ", close |-> << >>]>>

\* ^<pat>(.+)$ on one line: the line is the pattern followed by at least one
\* character
SubLine(c, line) ==
    IF StartsWith(line, c.pat) /\ Len(line) > Len(c.pat)
    THEN <<c.open>> \o SubSeq(line, Len(c.pat) + 1, Len(line)) \o c.close
    ELSE line

\* number of digits at the start of the line: what \d+ takes
RECURSIVE LeadingDigits(_)
LeadingDigits(line) ==
    IF line # << >> /\ Head(line) \in Digits THEN 1 + LeadingDigits(Tail(line))
    ELSE 0

\* ^\d+\. (.+)$ on one line
SubNumbered(c, line) ==
    LET n == LeadingDigits(line)
        rest == SubSeq(line, n + 1, Len(line))
    IN  IF n > 0 /\ StartsWith(rest, c.pat) /\ Len(rest) > Len(c.pat)
        THEN <<c.open>> \o SubSeq(rest, Len(c.pat) + 1, Len(rest)) \o c.close
        ELSE line

\* re.MULTILINE: ^ and $ match at the start and the end of every line
RECURSIVE MapLines(_, _)
MapLines(c, lines) ==
    IF lines = << >> THEN << >>
    ELSE <<IF c.kind = "line" THEN SubLine(c, Head(lines))
           ELSE SubNumbered(c, Head(lines))>> \o MapLines(c, Tail(lines))

MatchesAt(t, d, i) == i + Len(d) - 1 <= Len(t) /\ SubSeq(t, i, i + Len(d) - 1) = d

\* (.+?) followed by the delimiter: the first position j at which the
\* delimiter closes a group that ends at j - 1; 0 when there is none. The dot
\* matches no newline.
RECURSIVE FindClose(_, _, _)
FindClose(t, d, j) ==
    IF j > Len(t) THEN 0
    ELSE IF t[j - 1] = Newline THEN 0
    ELSE IF MatchesAt(t, d, j) THEN j
    ELSE FindClose(t, d, j + 1)

\* re.sub of <delim>(.+?)<delim>: the matches are found from left to right
\* and do not overlap
RECURSIVE SubInline(_, _, _)
SubInline(c, t, i) ==
    IF i > Len(t) THEN << >>
    ELSE LET j == IF MatchesAt(t, c.pat, i) /\ i + Len(c.pat) <= Len(t)
                  THEN FindClose(t, c.pat, i + Len(c.pat) + 1)
                  ELSE 0
         IN  IF j > 0
             THEN <<c.open>> \o SubSeq(t, i + Len(c.pat), j - 1) \o c.close
                  \o SubInline(c, t, j + Len(c.pat))
             ELSE <<t[i]>> \o SubInline(c, t, i + 1)

\* re.sub(pattern, replacement, latex_content, flags=re.MULTILINE), line 112
ReSub(c, t) ==
    IF c.kind = "inline" THEN SubInline(c, t, 1)
    ELSE Join(MapLines(c, Split(t, Newline)), <<Newline>>)

\* the loop of lines 111-112 over the conversions order[k], k = 1..n
RECURSIVE ApplyAll(_, _, _)
ApplyAll(order, n, t) ==
    IF n = 0 THEN t
    ELSE ReSub(Conversions[order[n]], ApplyAll(order, n - 1, t))

\* the order of the loop: the order of the list
ListOrder == [k \in 1..Len(Conversions) |-> k]

MarkdownToLaTeXRun(markdown_content) ==
    ApplyAll(ListOrder, Len(Conversions), markdown_content)

\* texts of up to n characters over the emphasis marker and a letter
RECURSIVE Emphasis(_)
Emphasis(n) ==
    IF n = 0 THEN {<< >>}
    ELSE LET shorter == Emphasis(n - 1)
         IN  shorter \cup {Append(t, ch) : t \in {u \in shorter : Len(u) = n - 1},
                                           ch \in {"*", "a"}}

\* one text for each conversion, and texts that mix them
MdSamples ==
    {<<"#", " ", "a">>, <<"#", "#", " ", "a">>, <<"#", "#", "#", " ", "a">>,
     <<"#", "#", "#", "#", " ", "a">>, <<"#", "a">>, <<"#", " ">>,
     <<Backtick, "a", Backtick>>, <<"-", " ", "a">>, <<"1", ".", " ", "a">>,
     <<"1", "2", ".", " ", "a">>, <<"1", ".", "a">>,
     <<"#", " ", "*", "a", "*", Newline, "-", " ", "*", "*", "a", "*", "*">>,
     <<"*", Newline, "*">>, <<Backtick, "*", "a", "*", Backtick>>,
     <<"1", ".", " ", Backtick, "a", Backtick, Newline, "#", "#", " ", "a">>}

MdTexts == Emphasis(MaxMdLen) \cup MdSamples

\* MarkdownToLaTeXTool._run
MdRun ==
    /\ mdPc = "start"
    /\ mdOut' = MarkdownToLaTeXRun(mdText)
    /\ mdPc' = "done"
    /\ UNCHANGED <<mdText, mdCur, mdApplied, pipeVars, akVars, inVars>>

\* the same substitutions in another order: one that was not applied yet is
\* applied to the text
MdApply ==
    /\ mdPc = "done"
    /\ \E k \in (1..Len(Conversions)) \ mdApplied :
         /\ mdCur' = ReSub(Conversions[k], mdCur)
         /\ mdApplied' = mdApplied \cup {k}
    /\ UNCHANGED <<mdText, mdOut, mdPc, pipeVars, akVars, inVars>>

InitMarkdown ==
    /\ mode = "markdown_to_latex"
    /\ configExists = FALSE
    /\ config = EmptyDict
    /\ fs = EmptyDict
    /\ PipeIdle
    /\ AkIdle
    /\ mdText \in MdTexts
    /\ mdOut = << >>
    /\ mdCur = mdText
    /\ mdApplied = {}
    /\ mdPc = "start"
    /\ InIdle

NextMarkdown == MdRun \/ MdApply

SpecMarkdown == InitMarkdown /\ [][NextMarkdown]_vars

\* C14: when every substitution has been applied, in whatever order, the
\* text is the one MarkdownToLaTeXTool returns.
C14_OrderIndependent ==
    (mdPc = "done" /\ mdApplied = 1..Len(Conversions)) => mdCur = mdOut

----------------------------------------------------------------------------
(* compile_book (main.py) *)

ChaptersDir == <<"output", Slash, "chapters">>
BookDir == <<"output", Slash, "book">>

\* fnmatch of a file name against chapter_*.md
MatchesChapter(name) ==
    /\ Len(name) >= 2
    /\ name[1] = "chapter_"
    /\ name[Len(name)] = ".md"

\* glob.glob(f'{chapters_dir}/chapter_*.md'): the paths of the entries of the
\* directory whose names match
GlobChapters(files) ==
    {p \in DOMAIN files :
        /\ StartsWith(p, ChaptersDir \o <<Slash>>)
        /\ Parent(p) = ChaptersDir
        /\ MatchesChapter(Basename(p))}

\* the code point of the first character of a token of a file name
CodePoint(c) ==
    CASE c = ".md" -> 46
      [] c = ".tex" -> 46
      [] c = "0" -> 48
      [] c = "1" -> 49
      [] c = "2" -> 50
      [] OTHER -> 97

\* a < b as Python compares str: by the first character that differs, a
\* proper prefix first
RECURSIVE StrLess(_, _)
StrLess(a, b) ==
    IF b = << >> THEN FALSE
    ELSE IF a = << >> THEN TRUE
    ELSE IF Head(a) = Head(b) THEN StrLess(Tail(a), Tail(b))
    ELSE CodePoint(Head(a)) < CodePoint(Head(b))

\* sorted(S)
RECURSIVE Sorted(_)
Sorted(S) ==
    IF S = {} THEN << >>
    ELSE LET least == CHOOSE x \in S : \A y \in S \ {x} : StrLess(x, y)
         IN  <<least>> \o Sorted(S \ {least})

\* lines 269-274
CompileInputs(chapter_files) ==
    Merge(("exam_name" :> DEFAULT_CONFIG["exam_name"])
          @@ ("current_date" :> Today)
          @@ ("chapter_files" :> chapter_files),
          DEFAULT_CONFIG)

\* the names printed by lines 265-266
RECURSIVE Basenames(_)
Basenames(paths) ==
    IF paths = << >> THEN << >>
    ELSE <<Basename(Head(paths))>> \o Basenames(Tail(paths))

\* lines 251-262: no chapter file is found
CompileNoChapters ==
    /\ mode = "compile"
    /\ pc = "start"
    /\ Sorted(GlobChapters(fs)) = << >>
    /\ printed' = printed \o
            <<Banner, <<"Compiling LaTeX Book">>,
              ErrorText(<<"No chapter files found in ">> \o ChaptersDir)>>
    /\ returned' = NoneValue
    /\ pc' = "done"
    /\ UNCHANGED <<mode, configExists, config, idx, results, inputs, jobState,
                   failure, stageLog, jobLog, failedTools, calls, tool, fs,
                   raised, akVars, mdVars, inVars>>

\* lines 251-274: the chapter files are found, listed and put in the inputs
CompileCollect ==
    /\ mode = "compile"
    /\ pc = "start"
    /\ LET chapter_files == Sorted(GlobChapters(fs))
       IN  /\ chapter_files # << >>
           /\ printed' = printed \o
                <<Banner, <<"Compiling LaTeX Book">>,
                  <<"Found ", ToString(Len(chapter_files)), " chapters to compile:">>>>
                \o Basenames(chapter_files)
           /\ inputs' = CompileInputs(chapter_files)
    /\ pc' = "collected"
    /\ UNCHANGED <<mode, configExists, config, idx, results, jobState,
                   failure, stageLog, jobLog, failedTools, calls, tool, fs,
                   raised, returned, akVars, mdVars, inVars>>

\* lines 276-286: the crew is created, which makes its directories, and
\* its LaTeX agent; nothing is run. An OSError of the constructor leaves
\* compile_book.
CompileNotImplemented ==
    /\ mode = "compile"
    /\ pc = "collected"
    /\ \E deny \in DenyChoices :
         LET r == EnsureDirectories(fs, deny)
         IN  /\ fs' = r.files
             /\ IF r.ok
                THEN /\ printed' = printed \o
                          <<<<"Standalone book compilation not yet implemented">>,
                            <<"Please run the full pipeline or compile manually with pdflatex">>>>
                     /\ returned' = NoneValue
                     /\ raised' = raised
                ELSE /\ raised' = Exc(r.type, r.err)
                     /\ UNCHANGED <<printed, returned>>
    /\ pc' = "done"
    /\ UNCHANGED <<mode, configExists, config, idx, results, inputs, jobState,
                   failure, stageLog, jobLog, failedTools, calls, tool,
                   akVars, mdVars, inVars>>

\* what output/chapters and output/book may hold when compile is run
ChapterDocs ==
    {ChaptersDir \o <<Slash, "chapter_", "1", ".md">>,
     ChaptersDir \o <<Slash, "chapter_", "1", "0", ".md">>,
     ChaptersDir \o <<Slash, "chapter_", "2", ".md">>,
     ChaptersDir \o <<Slash, "chapter_", ".md">>,
     ChaptersDir \o <<Slash, "notes", ".md">>,
     ChaptersDir \o <<Slash, "chapter_", "1", ".tex">>,
     ChaptersDir \o <<Slash, "old", Slash, "chapter_", "1", ".md">>,
     BookDir \o <<Slash, "chapter_", "2", ".md">>}

InitCompile ==
    /\ mode = "compile"
    /\ configExists = FALSE
    /\ config = EmptyDict
    /\ \E docs \in SUBSET ChapterDocs :
         fs = WithParents([p \in docs |-> <<"# Chapter">>])
    /\ PipeIdle
    /\ AkIdle
    /\ MdIdle
    /\ InIdle

NextCompile == CompileNoChapters \/ CompileCollect \/ CompileNotImplemented

SpecCompile == InitCompile /\ [][NextCompile]_vars

\* the compilation stage of the crew was run
CompilationRan ==
    \/ \E n \in 1..Len(stageLog) : stageLog[n] = "latex_book_compilation_task"
    \/ tool.name = "latex"

\* C20: compile_book has ended; when output/chapters holds chapter_*.md
\* files the compilation stage was run over all of them in sorted order,
\* and when it holds none an error was printed, None returned and no
\* compilation run.
C20_CompilesChapters ==
    (mode = "compile" /\ pc = "done") =>
        IF GlobChapters(fs) # {}
        THEN /\ CompilationRan
             /\ inputs["chapter_files"] = Sorted(GlobChapters(fs))
        ELSE /\ ~CompilationRan
             /\ returned = NoneValue
             /\ printed[Len(printed)] =
                    ErrorText(<<"No chapter files found in ">> \o ChaptersDir)

----------------------------------------------------------------------------
(* run_interactive (main.py) *)

\* str.lower(), character by character
LowerChar(c) ==
    CASE c = "Y" -> "y"
      [] c = "N" -> "n"
      [] c = "O" -> "o"
      [] c = "E" -> "e"
      [] c = "S" -> "s"
      [] OTHER -> c
Lower(s) == [i \in 1..Len(s) |-> LowerChar(s[i])]

\* lines 209-211
ImagePathOf(t) ==
    IF Strip(t.image) # << >> THEN Strip(t.image) ELSE Strip(t.image2)

\* line 215
NumberText(t) == Strip(t.number)

\* line 216, when int() returns
ChapterNumberOf(t) == IF NumberText(t) # << >> THEN IntOf(NumberText(t)) ELSE 1

\* lines 218-220
ChapterNameOf(t) ==
    IF Strip(t.name) # << >> THEN Strip(t.name)
    ELSE <<"Chapter ", ToString(ChapterNumberOf(t))>>

\* lines 222-224
SubjectOf(t) ==
    IF Strip(t.subject) # << >> THEN Strip(t.subject) ELSE <<"General Studies">>

\* lines 236-237: the answer lets the job go on
Proceeds(t) ==
    LET confirm == Lower(Strip(t.confirm))
    IN  ~(confirm # << >> /\ confirm # <<"y">>)

Rule == <<"========================================">>

\* lines 203-207 and 227-234: what is printed up to the last prompt
SummaryLines(t) ==
    <<Banner, <<"Interactive Mode">>,
      <<"Please provide the following information:">>,
      Rule, <<"Configuration Summary:">>, Rule,
      <<"  Image: ">> \o ImagePathOf(t),
      <<"  Answer Key: ">> \o Strip(t.key),
      <<"  Chapter: ", ToString(ChapterNumberOf(t)), " - ">> \o ChapterNameOf(t),
      <<"  Subject: ">> \o SubjectOf(t),
      Rule>>

\* lines 203-216: int() raises on the chapter number typed
InteractiveValueError ==
    /\ mode = "interactive"
    /\ pc = "start"
    /\ NumberText(typed) # << >>
    /\ ~IsIntLiteral(NumberText(typed))
    /\ printed' = printed \o
            <<Banner, <<"Interactive Mode">>,
              <<"Please provide the following information:">>>>
    /\ raised' = IntValueError(NumberText(typed))
    /\ pc' = "done"
    /\ UNCHANGED <<mode, configExists, config, idx, results, inputs, jobState,
                   failure, stageLog, jobLog, failedTools, calls, tool, fs,
                   returned, akVars, mdVars, inVars>>

\* lines 203-239: the answer to "Proceed?" is neither blank nor y
InteractiveCancelled ==
    /\ mode = "interactive"
    /\ pc = "start"
    /\ NumberText(typed) # << >> => IsIntLiteral(NumberText(typed))
    /\ ~Proceeds(typed)
    /\ printed' = printed \o SummaryLines(typed) \o <<<<"Cancelled">>>>
    /\ returned' = NoneValue
    /\ pc' = "done"
    /\ UNCHANGED <<mode, configExists, config, idx, results, inputs, jobState,
                   failure, stageLog, jobLog, failedTools, calls, tool, fs,
                   raised, akVars, mdVars, inVars>>

\* lines 203-241 and run_single up to kickoff (lines 104-118)
InteractiveProceed ==
    /\ mode = "interactive"
    /\ pc = "start"
    /\ NumberText(typed) # << >> => IsIntLiteral(NumberText(typed))
    /\ Proceeds(typed)
    /\ printed' = printed \o SummaryLines(typed) \o <<Banner>>
    /\ mode' = "run_single"
    /\ StartKickoff(RunSingleInputs(ImagePathOf(typed), Strip(typed.key),
                                    ChapterNumberOf(typed),
                                    ChapterNameOf(typed), SubjectOf(typed)))
    /\ UNCHANGED <<configExists, config, idx, results, fs, raised,
                   returned, akVars, mdVars, inVars>>

\* what may be typed at the prompts
TypedPaths == {<< >>, ImageThere, <<" ">> \o ImageGone \o <<" ">>}
TypedNumbers ==
    {<< >>, <<" ">>, <<"2">>, <<" ", "7", " ">>, <<"1", "0">>, <<"+", "2">>,
     <<"1", "_", "0">>, <<"0">>, <<"-", "3">>, <<"a">>, <<"2", ".", "5">>,
     <<"-">>, <<"1", "_">>}
TypedConfirms ==
    {<< >>, <<"y">>, <<"Y">>, <<" ", "Y", " ">>, <<"n">>, <<"N">>,
     <<"n", "o">>, <<"y", "e", "s">>}
TypedChoices ==
    {[image |-> i, image2 |-> i2, key |-> k, number |-> n, name |-> nm,
      subject |-> sb, confirm |-> c] :
        i \in TypedPaths, i2 \in {<< >>, ImageThere}, k \in {<< >>, KeyFile},
        n \in TypedNumbers, nm \in {<< >>, <<"Sets">>},
        sb \in {<< >>, <<"Math">>}, c \in TypedConfirms}

InitInteractive ==
    /\ mode = "interactive"
    /\ configExists = FALSE
    /\ config = EmptyDict
    /\ fs = WithParents(NormPath(ImageThere) :> <<"img">>)
    /\ PipeIdle
    /\ AkIdle
    /\ MdIdle
    /\ typed \in {t \in TypedChoices : Strip(t.image) # << >> => t.image2 = << >>}
    /\ argv = << >>

NextInteractive ==
    \/ InteractiveValueError
    \/ InteractiveCancelled
    \/ InteractiveProceed
    \/ Construct
    \/ PrepareInputs
    \/ StageComplete
    \/ StageRaise
    \/ SingleSuccess
    \/ SingleExcept

SpecInteractive == InitInteractive /\ [][NextInteractive]_vars

\* a job was started: kickoff was called
JobStarted == jobLog # << >>

\* the user answers no at "Proceed?"
Declines == Lower(Strip(typed.confirm)) \in {<<"n">>, <<"n", "o">>}

\* C21: every job started by interactive mode has a positive integer
\* chapter_number, which is 1 when the chapter number typed is blank, and
\* no job is started when the user does not confirm.
C21_InteractiveJobs ==
    /\ JobStarted =>
          /\ inputs["chapter_number"] \in Int
          /\ inputs["chapter_number"] > 0
          /\ (Strip(typed.number) = << >> => inputs["chapter_number"] = 1)
    /\ Declines => ~JobStarted

----------------------------------------------------------------------------
(* Properties of the LaTeX compiler tool *)

LatexStep == calls' = calls + 1 /\ tool'.name = "latex"

\* the regular files of a file system, with their contents
Files(f) == [p \in {q \in DOMAIN f : f[q] # Directory} |-> f[p]]

\* C11: a call of LaTeXCompilerTool made where pdflatex cannot be found
\* returns the compiler-missing failure and leaves the disk as it was: the
\* same paths with the same contents.
C11_DiskUnchanged ==
    [][(LatexStep /\ tool'.latex = "not_found") =>
        /\ tool'.ret = Str(<<"[LaTeX Compiler]",
                " pdflatex not found. Please install a LaTeX distribution.">>)
        /\ fs' = fs]_vars

\* os.makedirs raised in the last call of LaTeXCompilerTool: the output
\* directory is the empty string, it or a path above it is a regular file,
\* or the creation of a directory was refused
RaisedFor(files, dir, deny) ==
    \/ dir = << >>
    \/ \E q \in Ancestors(dir) : IsFile(files, q)
    \/ deny > 0 /\ ~Exists(files, dir)
MakedirsRaised == RaisedFor(fs, tool.dir, tool.deny)

\* C11 as amended: a call of LaTeXCompilerTool made where pdflatex cannot be
\* found creates, changes and removes no regular file; all it adds to the
\* disk are directories on the path of the output directory, made by
\* os.makedirs before pdflatex is looked for. When os.makedirs has returned,
\* the whole path is there and the result is the compiler-missing failure;
\* when it raised, pdflatex is not looked for and the result is "[LaTeX
\* Compiler] Error: " with the text of the exception, or, for the empty
\* output directory, the compiler-missing text.
C11_NoFileWhenCompilerMissing ==
    [][(LatexStep /\ tool'.latex = "not_found") =>
        \A t \in {tool'}, after \in {fs'} :
            /\ Files(after) = Files(fs)
            /\ DOMAIN fs \subseteq DOMAIN after
            /\ DOMAIN after \ DOMAIN fs \subseteq Ancestors(t.dir)
            /\ ~RaisedFor(after, t.dir, t.deny) =>
                /\ t.runs = 1
                /\ Ancestors(t.dir) \subseteq DOMAIN after
                /\ t.ret = Str(<<"[LaTeX Compiler]",
                        " pdflatex not found. Please install a LaTeX distribution.">>)
            /\ RaisedFor(after, t.dir, t.deny) =>
                /\ t.runs = 0
                /\ IF t.dir = << >>
                   THEN t.ret = Str(<<"[LaTeX Compiler]",
                        " pdflatex not found. Please install a LaTeX distribution.">>)
                   ELSE /\ StartsWith(t.ret.val,
                                      <<"[LaTeX Compiler]", " Error: ">>)
                        /\ \/ Contains(t.ret.val,
                                       <<"[Errno 13] Permission denied: '">>)
                           \/ Contains(t.ret.val, <<"[Errno 17] File exists: '">>)
                           \/ Contains(t.ret.val,
                                       <<"[Errno 20] Not a directory: '">>)]_vars

\* pdflatex was not found, in a call that had to create the output directory
C11_Witness ==
    /\ tool.name = "latex"
    /\ tool.latex = "not_found"
    /\ tool.runs = 1
    /\ tool.exit = "not_found"
    /\ tool.dir = <<"output", Slash, "pdf", Slash, "v1">>
    /\ fs[<<"output", Slash, "pdf", Slash, "v1">>] = Directory

TexStem(p) == IF p = TexFile THEN <<"main">> ELSE <<"gset">>

\* C12: when pdflatex exits with a non-zero status the result is "LaTeX
\* compilation failed: " followed by result.stderr as it is; a result that
\* reports success is given only for exit status 0 and names
\* <output_dir>/<tex stem>.pdf.
C12_FailureCarriesDiagnostics ==
    tool.name = "latex" =>
        /\ (tool.runs > 0 /\ tool.latex = "exit_nonzero") =>
                tool.ret = Str(<<"LaTeX compilation failed: ">> \o tool.stderr)
        /\ StartsWith(tool.ret.val, <<"Successfully compiled LaTeX to PDF: ">>) =>
                /\ tool.latex = "exit_zero"
                /\ tool.runs > 0
                /\ tool.ret.val = <<"Successfully compiled LaTeX to PDF: ">>
                        \o tool.dir \o <<Slash>> \o TexStem(tool.path) \o <<".pdf">>
        /\ (tool.runs > 0 /\ tool.latex = "exit_zero") =>
                StartsWith(tool.ret.val, <<"Successfully compiled LaTeX to PDF: ">>)

\* pdflatex exited non-zero with a diagnostic of several lines
C12_Witness ==
    /\ tool.name = "latex"
    /\ tool.latex = "exit_nonzero"
    /\ tool.exit = "failed"
    /\ Len(tool.stderr) > 1

TimedOutText ==
    Str(<<"[LaTeX Compiler]", " Compilation timed out after ", "120", " seconds.">>)

\* C13: every call of LaTeXCompilerTool calls subprocess.run exactly once,
\* with a timeout of 120 seconds, and a call in which pdflatex exceeds the
\* timeout returns the timeout failure.
C13_ExactlyOnce ==
    tool.name = "latex" =>
        /\ tool.runs = 1
        /\ tool.timeout = 120
        /\ tool.latex = "timeout" => tool.ret = TimedOutText

\* C13 as amended: a call of LaTeXCompilerTool calls subprocess.run at most
\* once, and exactly once with a timeout of 120 seconds unless the output
\* directory could not be created; when pdflatex exceeds the timeout the call
\* returns the timeout failure after that one call.
C13_AtMostOnce ==
    tool.name = "latex" =>
        /\ tool.runs \in {0, 1}
        /\ tool.runs = 0 <=> MakedirsRaised
        /\ tool.runs = 1 =>
            /\ tool.timeout = 120
            /\ tool.latex = "timeout" =>
                    (tool.ret = TimedOutText /\ tool.exit = "timeout")

\* pdflatex exceeded the timeout
C13_Witness ==
    /\ tool.name = "latex"
    /\ tool.latex = "timeout"
    /\ tool.runs = 1
    /\ tool.exit = "timeout"

\* C16: a result by which the OCR tool, the file writer or the LaTeX compiler
\* tool reports a failure contains the path the call was about: the file to
\* read, the file to write, the tex file or the output directory (the
\* compiler-missing failure names the executable).
C16_FailureNamesPath ==
    (tool.name \in {"ocr", "writer", "latex"}
     /\ ReportsFailure(tool.name, tool.ret)) =>
        \/ Contains(tool.ret.val, tool.path)
        \/ Contains(tool.ret.val, NormPath(tool.path))
        \/ tool.name = "latex" /\ Contains(tool.ret.val, tool.dir)
        \/ tool.name = "latex" /\ tool.exit = "not_found"

----------------------------------------------------------------------------
(* Properties of prepare_inputs and of batch mode *)

\* kickoff runs the @before_kickoff hook
PrepareStep == pc = "kickoff" /\ jobState = "Pending" /\ jobState' # "Pending"

Required == {"image_path", "chapter_number", "chapter_name", "subject"}
Lacking == {f \in Required : f \notin DOMAIN inputs}

\* C15: when the inputs of a job lack required fields, prepare_inputs raises
\* a ValueError whose message names the missing fields and no others, and no
\* stage is started; when none is missing, nothing is raised, the inputs are
\* returned with every value they had, and the first stage starts.
C15_MissingFieldsRejected ==
    [][PrepareStep =>
        IF Lacking # {}
        THEN /\ jobState' = "Failed"
             /\ stageLog' = << >>
             /\ failure'.stage = "Pending"
             /\ failure'.cause.type = "ValueError"
             /\ StartsWith(failure'.cause.msg, <<"Missing required inputs: ">>)
             /\ \A f \in Required :
                    Contains(failure'.cause.msg, <<"'", f, "'">>) <=> f \in Lacking
        ELSE /\ jobState' = "Extracting"
             /\ failure' = NoFailure
             /\ \A k \in DOMAIN inputs :
                    k \in DOMAIN inputs' /\ inputs'[k] = inputs[k]]_vars

\* a job without chapter_name and subject was rejected
C15_Witness ==
    /\ jobState = "Failed"
    /\ failure.stage = "Pending"
    /\ stageLog = << >>
    /\ Contains(failure.cause.msg,
                <<"[", "'", "chapter_name", "'", ", ", "'", "subject", "'", "]">>)

\* C17: in run_batch the kickoffs are started one after the other in config
\* order: the log of kickoffs is start 1, end 1, start 2, end 2, ...; the
\* job that is running is the chapter at its index of the config; and when
\* run_batch has ended every chapter was started exactly once.
C17_BatchSequential ==
    mode = "batch" =>
        /\ \A n \in 1..Len(jobLog) :
            /\ jobLog[n].job = (n + 1) \div 2
            /\ (n % 2 = 1) => jobLog[n].ev = "start"
            /\ (n % 2 = 0) => jobLog[n].ev \in {"returned", "raised"}
        /\ pc = "kickoff" =>
            /\ idx \in 1..Len(Chapters)
            /\ jobLog[Len(jobLog)].job = idx
            /\ inputs["chapter_number"] = Chapters[idx]["chapter_number"]
        /\ (pc = "done" /\ configExists) => Len(jobLog) = 2 * Len(Chapters)

\* a batch of three chapters ended; the first and the third pipeline raised
C17_Witness ==
    /\ mode = "batch"
    /\ pc = "done"
    /\ Len(Chapters) = 3
    /\ Len(jobLog) = 6
    /\ jobLog[2].ev = "raised" /\ jobLog[4].ev = "returned"
    /\ jobLog[6].ev = "raised"

\* the output file name prepare_inputs derives for chapter k of the config
NameOfJob(k) == WithDefaults(BatchInputs(config, Chapters[k]))["filename"]

\* C18: the output file name of the running job differs from the name of
\* every earlier job of the batch that has another image_path.
C18_DisjointOutputNames ==
    (mode = "batch" /\ pc = "kickoff" /\ "filename" \in DOMAIN inputs) =>
        \A k \in 1..(idx - 1) :
            ("image_path" \in DOMAIN Chapters[k]
             /\ Chapters[k]["image_path"] # inputs["image_path"]) =>
                NameOfJob(k) # inputs["filename"]

JobFields ==
    {"image_path", "answer_key_file", "chapter_number", "chapter_name",
     "subject", "exam_name"}

\* C19: the inputs handed to kickoff for a chapter hold every job field of
\* the element with the element's value, and exam_name is the configured
\* one (of the element, else of the top level), 'GSET' only when none is
\* configured.
C19_FieldsReachInputs ==
    (mode = "batch" /\ pc = "kickoff" /\ jobState = "Pending") =>
        LET chapter == Chapters[idx]
        IN  /\ \A f \in JobFields \cap DOMAIN chapter :
                    f \in DOMAIN inputs /\ inputs[f] = chapter[f]
            /\ "exam_name" \notin DOMAIN chapter =>
                    inputs["exam_name"] =
                        (IF "exam_name" \in DOMAIN config
                         THEN config["exam_name"] ELSE "GSET")

====
